---- MODULE Spec2Model ----
(***************************************************************************)
(* Green Olive Chain: the ledger program (Go chaincode with the WASTE_ /   *)
(* EXTRACTION_ / RECYCLING_ key space) and the HTTP service that mirrors   *)
(* entities in process memory.                                             *)
(*                                                                         *)
(* Strings that are compared or ordered (ids, keys) are sequences of ASCII *)
(* codes, so that key concatenation and the byte order of a range scan are *)
(* computed, not assumed.  Quantities are in hundredths of a unit.         *)
(***************************************************************************)
EXTENDS Integers, Sequences, FiniteSets, TLC

VARIABLES
    worldState,             \* ledger: key -> marshalled JSON value
    clock,                  \* time.Now() of the next ledger transaction
    lastTx,                 \* outcome of the last ledger-program invocation
    applied,                \* per waste id: status-changing calls that committed
    blockchainInitialized,  \* per controller: the module-level flag
    isInitialized,          \* per controller: its client's isInitialized field
    tempWastes,             \* wasteController mirror
    extractions,            \* extractionController mirror
    recyclings,             \* recyclingController mirror
    dateNow,                \* Date.now() of the next service request
    response,               \* last HTTP response of the service
    gateway,                \* what the ledger gateway behind the client does
    clientLog,              \* client calls made by the last service request
    degraded,               \* ids of the wastes whose ledger create failed
    fullClient,             \* the BlockchainClient instance that talks to Fabric
    calls,                  \* its ledger operations and hlfClient's, by start order
    sessions,               \* every Gateway object created so far
    wasteState,             \* chaincode/waste.go: key -> stored Waste
    wasteClock,             \* chaincode/waste.go: time.Now() of its next write
    wasteTx,                \* chaincode/waste.go: outcome of its last invocation
    requests                \* updateWasteStatus requests suspended at their await

ledgerVars == <<worldState, clock, lastTx, applied>>
clientVars == <<fullClient, calls, sessions>>
standaloneVars == <<wasteState, wasteClock, wasteTx>>
handlerVars == <<blockchainInitialized, isInitialized, tempWastes, extractions,
                 recyclings, dateNow, response, gateway, clientLog, degraded,
                 fullClient, calls, sessions, wasteState, wasteClock, wasteTx>>
serviceVars == <<blockchainInitialized, isInitialized, tempWastes, extractions,
                 recyclings, dateNow, response, gateway, clientLog, degraded,
                 fullClient, calls, sessions, wasteState, wasteClock, wasteTx,
                 requests>>
vars == <<worldState, clock, lastTx, applied,
          blockchainInitialized, isInitialized, tempWastes, extractions, recyclings,
          dateNow, response, gateway, clientLog, degraded,
          fullClient, calls, sessions, wasteState, wasteClock, wasteTx, requests>>

----------------------------------------------------------------------------
(* Bounds *)

MaxClock == 4
MaxRequests == 2
MaxCalls == 2

----------------------------------------------------------------------------
(* Strings as ASCII sequences *)

WASTE_ == <<87, 65, 83, 84, 69, 95>>
EXTRACTION_ == <<69, 88, 84, 82, 65, 67, 84, 73, 79, 78, 95>>
RECYCLING_ == <<82, 69, 67, 89, 67, 76, 73, 78, 71, 95>>
Tilde == <<126>>
Quantity_50 == <<53, 48>>
Quantity_Plus7 == <<43, 55>>
Quantity_0 == <<48>>
Quantity_Minus5 == <<45, 53>>
Quantity_5x == <<53, 120>>
Date_2023_10_01 == <<50, 48, 50, 51, 45, 49, 48, 45, 48, 49>>
Date_2024_02_29 == <<50, 48, 50, 52, 45, 48, 50, 45, 50, 57>>
Date_2023_02_29 == <<50, 48, 50, 51, 45, 48, 50, 45, 50, 57>>
Date_Slashes == <<48, 49, 47, 49, 48, 47, 50, 48, 50, 51>>
Date_Short == <<50, 48, 50, 51, 45, 49, 45, 53>>

IdA == <<97>>
IdB == <<98>>
IdWaste1 == <<119, 97, 115, 116, 101, 49>>

WasteIds == {IdA, IdWaste1}
ExtractionIds == {IdA, IdB}
RecyclingIds == {IdA, IdB}

\* byte-wise lexicographic order of the state database
LexLess(s, t) ==
    \E i \in 1..Len(t) :
        /\ \A j \in 1..(i - 1) : j <= Len(s) /\ s[j] = t[j]
        /\ (i > Len(s) \/ s[i] < t[i])

----------------------------------------------------------------------------
(* Input domains *)

Statuses == {"COLLECTED", "PROCESSED", "RECYCLED"}
NewStatuses == Statuses \cup {"READY"}
Quantities == {1000}
NoErr == "nil"

History(timestamp, action, actor, details) ==
    [timestamp |-> timestamp, action |-> action, actor |-> actor, details |-> details]

----------------------------------------------------------------------------
(* encoding/json on the chaincode structs: farm and location are omitempty *)

OmitEmpty == {"farm", "location"}

Marshal(v) ==
    LET keep == {f \in DOMAIN v : ~(f \in OmitEmpty /\ v[f] = "")}
    IN  [f \in keep |-> v[f]]

WasteFields ==
    {"id", "type", "quantity", "harvestDate", "status", "owner", "farm",
     "location", "createdAt", "updatedAt", "history"}

\* json.Unmarshal of a Waste whose harvestDate tag does not match the key
UnmarshalWaste_TagMismatch(j) ==
    [f \in WasteFields |-> IF f \in DOMAIN j /\ f # "harvestDate" THEN j[f] ELSE ""]

UnmarshalWaste(j) ==
    [f \in WasteFields |-> IF f \in DOMAIN j THEN j[f] ELSE ""]

ExtractionFields ==
    {"id", "wasteId", "productType", "quantity", "quality", "extractionDate",
     "processor", "status", "createdAt", "history"}

RecyclingFields ==
    {"id", "wasteId", "recycledProduct", "quantity", "method", "recyclingDate",
     "recycler", "status", "createdAt", "history"}

\* json.Unmarshal into a struct with the given fields; every field of the
\* Extraction and Recycling structs is always present in the stored JSON
Unmarshal(j, fields) ==
    [f \in fields |-> IF f \in DOMAIN j THEN j[f] ELSE ""]

----------------------------------------------------------------------------
(* The stub: reads see the committed state, writes are buffered in the     *)
(* transaction's write set and applied only when the function returns nil. *)

GetState(ws, key) == IF key \in DOMAIN ws THEN <<ws[key]>> ELSE <<>>

PutState(key, value) == [key |-> key, value |-> value]

RECURSIVE ApplyWrites(_, _)
ApplyWrites(ws, writes) ==
    IF writes = <<>> THEN ws
    ELSE LET w == Head(writes)
             ws1 == [k \in DOMAIN ws \cup {w.key} |->
                        IF k = w.key THEN w.value ELSE ws[k]]
         IN  ApplyWrites(ws1, Tail(writes))

\* a commit that applies only the first write of the write set
Commit_FirstWriteOnly(ws, res) ==
    IF res.err = NoErr /\ res.writes # <<>>
    THEN ApplyWrites(ws, <<Head(res.writes)>>)
    ELSE ws

Commit(ws, res) == IF res.err = NoErr THEN ApplyWrites(ws, res.writes) ELSE ws

\* a range iterator that yields the keys in descending order
RECURSIVE SortKeys_Descending(_)
SortKeys_Descending(S) ==
    IF S = {} THEN <<>>
    ELSE LET m == CHOOSE k \in S : \A o \in S \ {k} : LexLess(o, k)
         IN  <<m>> \o SortKeys_Descending(S \ {m})

RECURSIVE SortKeys(_)
SortKeys(S) ==
    IF S = {} THEN <<>>
    ELSE LET m == CHOOSE k \in S : \A o \in S \ {k} : LexLess(k, o)
         IN  <<m>> \o SortKeys(S \ {m})

GetStateByRange(ws, startKey, endKey) ==
    SortKeys({k \in DOMAIN ws :
                 /\ (k = startKey \/ LexLess(startKey, k))
                 /\ LexLess(k, endKey)})

Result(err, writes) == [err |-> err, writes |-> writes]

----------------------------------------------------------------------------
(* Chaincode functions *)

WasteExists(ws, id) == GetState(ws, WASTE_ \o id) # <<>>

ReadWaste(ws, id) ==
    LET wasteJSON == GetState(ws, WASTE_ \o id)
    IN  IF wasteJSON = <<>>
        THEN [err |-> "does not exist", waste |-> <<>>]
        ELSE [err |-> NoErr, waste |-> <<UnmarshalWaste(wasteJSON[1])>>]

InitLedgerTx(now) ==
    LET waste == [id |-> IdWaste1, type |-> "Olive Branches", quantity |-> 5050,
                  harvestDate |-> "2025-06-01", status |-> "COLLECTED",
                  owner |-> "farmer1", farm |-> "Olive Farm Alpha",
                  location |-> "Andalusia, Spain",
                  createdAt |-> now, updatedAt |-> now,
                  history |-> <<History(now, "CREATED", "farmer1",
                                        <<"Initial waste collection">>)>>]
    IN  Result(NoErr, <<PutState(WASTE_ \o waste.id, Marshal(waste))>>)

CreateWasteTx(ws, now, id, wasteType, quantity, harvestDate, owner, farm, location) ==
    IF WasteExists(ws, id)
    THEN Result("already exists", <<>>)
    ELSE LET waste == [id |-> id, type |-> wasteType, quantity |-> quantity,
                       harvestDate |-> harvestDate, status |-> "COLLECTED",
                       owner |-> owner, farm |-> farm, location |-> location,
                       createdAt |-> now, updatedAt |-> now,
                       history |-> <<History(now, "CREATED", owner,
                                      <<"Waste collected", wasteType, quantity>>)>>]
         IN  Result(NoErr, <<PutState(WASTE_ \o id, Marshal(waste))>>)

\* UpdateWasteStatusTx putting the new entry in front of the history
UpdateWasteStatusTx_Prepend(ws, now, id, newStatus, actor, details) ==
    LET r == ReadWaste(ws, id)
    IN  IF r.err # NoErr
        THEN Result(r.err, <<>>)
        ELSE LET waste == r.waste[1]
                 oldStatus == waste.status
                 historyEntry == History(now, "STATUS_CHANGED", actor,
                                   <<"Status changed", oldStatus, newStatus, details>>)
                 updated == [waste EXCEPT !.status = newStatus,
                                          !.updatedAt = now,
                                          !.history = <<historyEntry>> \o @]
             IN  Result(NoErr, <<PutState(WASTE_ \o id, Marshal(updated))>>)

UpdateWasteStatusTx(ws, now, id, newStatus, actor, details) ==
    LET r == ReadWaste(ws, id)
    IN  IF r.err # NoErr
        THEN Result(r.err, <<>>)
        ELSE LET waste == r.waste[1]
                 oldStatus == waste.status
                 historyEntry == History(now, "STATUS_CHANGED", actor,
                                   <<"Status changed", oldStatus, newStatus, details>>)
                 updated == [waste EXCEPT !.status = newStatus,
                                          !.updatedAt = now,
                                          !.history = Append(@, historyEntry)]
             IN  Result(NoErr, <<PutState(WASTE_ \o id, Marshal(updated))>>)

\* CreateExtractionTx without the "already exists" test
CreateExtractionTx_NoDuplicateCheck(ws, now, id, wasteId, productType, quantity, quality, processor) ==
    IF ReadWaste(ws, wasteId).err # NoErr
    THEN Result("source waste not found", <<>>)
    ELSE LET extraction ==
                 [id |-> id, wasteId |-> wasteId, productType |-> productType,
                  quantity |-> quantity, quality |-> quality,
                  extractionDate |-> now, processor |-> processor,
                  status |-> "PROCESSED", createdAt |-> now,
                  history |-> <<History(now, "EXTRACTED", processor,
                                  <<"Extracted", productType, quantity, wasteId>>)>>]
             put == PutState(EXTRACTION_ \o id, Marshal(extraction))
             upd == UpdateWasteStatusTx(ws, now, wasteId, "PROCESSED", processor,
                                        <<"Used for extraction", productType>>)
         IN  Result(upd.err, <<put>> \o upd.writes)

CreateExtractionTx(ws, now, id, wasteId, productType, quantity, quality, processor) ==
    IF ReadWaste(ws, wasteId).err # NoErr
    THEN Result("source waste not found", <<>>)
    ELSE IF GetState(ws, EXTRACTION_ \o id) # <<>>
    THEN Result("already exists", <<>>)
    ELSE LET extraction ==
                 [id |-> id, wasteId |-> wasteId, productType |-> productType,
                  quantity |-> quantity, quality |-> quality,
                  extractionDate |-> now, processor |-> processor,
                  status |-> "PROCESSED", createdAt |-> now,
                  history |-> <<History(now, "EXTRACTED", processor,
                                  <<"Extracted", productType, quantity, wasteId>>)>>]
             put == PutState(EXTRACTION_ \o id, Marshal(extraction))
             upd == UpdateWasteStatusTx(ws, now, wasteId, "PROCESSED", processor,
                                        <<"Used for extraction", productType>>)
         IN  Result(upd.err, <<put>> \o upd.writes)

\* CreateRecyclingTx without the source-waste test and with the error of the
\* status update dropped
CreateRecyclingTx_NoWasteCheck(ws, now, id, wasteId, recycledProduct, quantity, method, recycler) ==
    IF GetState(ws, RECYCLING_ \o id) # <<>>
    THEN Result("already exists", <<>>)
    ELSE LET recycling ==
                 [id |-> id, wasteId |-> wasteId, recycledProduct |-> recycledProduct,
                  quantity |-> quantity, method |-> method,
                  recyclingDate |-> now, recycler |-> recycler,
                  status |-> "COMPLETED", createdAt |-> now,
                  history |-> <<History(now, "RECYCLED", recycler,
                                  <<"Recycled", wasteId, recycledProduct, quantity, method>>)>>]
             put == PutState(RECYCLING_ \o id, Marshal(recycling))
             upd == UpdateWasteStatusTx(ws, now, wasteId, "RECYCLED", recycler,
                                        <<"Recycled into", recycledProduct, method>>)
         IN  Result(NoErr, <<put>> \o upd.writes)

CreateRecyclingTx(ws, now, id, wasteId, recycledProduct, quantity, method, recycler) ==
    IF ReadWaste(ws, wasteId).err # NoErr
    THEN Result("source waste not found", <<>>)
    ELSE IF GetState(ws, RECYCLING_ \o id) # <<>>
    THEN Result("already exists", <<>>)
    ELSE LET recycling ==
                 [id |-> id, wasteId |-> wasteId, recycledProduct |-> recycledProduct,
                  quantity |-> quantity, method |-> method,
                  recyclingDate |-> now, recycler |-> recycler,
                  status |-> "COMPLETED", createdAt |-> now,
                  history |-> <<History(now, "RECYCLED", recycler,
                                  <<"Recycled", wasteId, recycledProduct, quantity, method>>)>>]
             put == PutState(RECYCLING_ \o id, Marshal(recycling))
             upd == UpdateWasteStatusTx(ws, now, wasteId, "RECYCLED", recycler,
                                        <<"Recycled into", recycledProduct, method>>)
         IN  Result(upd.err, <<put>> \o upd.writes)

\* the iterator loops of GetAllWastes / GetAllExtractions / GetAllRecyclings
RECURSIVE ScanAll(_, _, _)
ScanAll(ws, keys, fields) ==
    IF keys = <<>> THEN <<>>
    ELSE <<Unmarshal(ws[Head(keys)], fields)>> \o ScanAll(ws, Tail(keys), fields)

GetAllWastes(ws) ==
    LET keys == GetStateByRange(ws, WASTE_, WASTE_ \o Tilde)
    IN  [i \in 1..Len(keys) |-> UnmarshalWaste(ws[keys[i]])]

GetAllExtractions(ws) ==
    ScanAll(ws, GetStateByRange(ws, EXTRACTION_, EXTRACTION_ \o Tilde), ExtractionFields)

GetAllRecyclings(ws) ==
    ScanAll(ws, GetStateByRange(ws, RECYCLING_, RECYCLING_ \o Tilde), RecyclingFields)

\* the scan loop without its break: the last matching record wins
RECURSIVE FirstRelated_NoBreak(_, _, _)
FirstRelated_NoBreak(ws, keys, wasteId) ==
    IF keys = <<>> THEN <<>>
    ELSE LET rec == ws[Head(keys)]
             rest == FirstRelated_NoBreak(ws, Tail(keys), wasteId)
         IN  IF rest # <<>> THEN rest
             ELSE IF rec.wasteId = wasteId THEN <<rec>>
             ELSE <<>>

\* the scan loop of GetTraceability: first record of the range whose
\* wasteId matches, then break
RECURSIVE FirstRelated(_, _, _)
FirstRelated(ws, keys, wasteId) ==
    IF keys = <<>> THEN <<>>
    ELSE LET rec == ws[Head(keys)]
         IN  IF rec.wasteId = wasteId
             THEN <<rec>>
             ELSE FirstRelated(ws, Tail(keys), wasteId)

\* AppendHistory putting the related record's events before the chain
AppendHistory_Prepend(chain, found) ==
    IF found = <<>> THEN chain ELSE found[1].history \o chain

AppendHistory(chain, found) ==
    IF found = <<>> THEN chain ELSE chain \o found[1].history

\* GetTraceability going on without the waste when ReadWaste fails
GetTraceability_IgnoreMissing(ws, wasteId) ==
    LET r == ReadWaste(ws, wasteId)
        extraction == FirstRelated(ws,
            GetStateByRange(ws, EXTRACTION_, EXTRACTION_ \o Tilde), wasteId)
        recycling == FirstRelated(ws,
            GetStateByRange(ws, RECYCLING_, RECYCLING_ \o Tilde), wasteId)
        chain0 == IF r.err # NoErr THEN <<>> ELSE r.waste[1].history
    IN  [err |-> NoErr,
         info |-> <<[waste |-> r.waste, extraction |-> extraction,
                     recycling |-> recycling,
                     chain |-> AppendHistory(AppendHistory(chain0, extraction), recycling)]>>]

GetTraceability(ws, wasteId) ==
    LET r == ReadWaste(ws, wasteId)
    IN  IF r.err # NoErr
        THEN [err |-> r.err, info |-> <<>>]
        ELSE LET waste == r.waste[1]
                 extraction == FirstRelated(ws,
                     GetStateByRange(ws, EXTRACTION_, EXTRACTION_ \o Tilde), wasteId)
                 recycling == FirstRelated(ws,
                     GetStateByRange(ws, RECYCLING_, RECYCLING_ \o Tilde), wasteId)
                 chain0 == waste.history
                 chain1 == AppendHistory(chain0, extraction)
                 chain2 == AppendHistory(chain1, recycling)
             IN  [err |-> NoErr,
                  info |-> <<[waste |-> <<waste>>, extraction |-> extraction,
                              recycling |-> recycling, chain |-> chain2]>>]

----------------------------------------------------------------------------
(* Ledger-program invocations *)

Tx(fn, args, err, ret) == [fn |-> fn, args |-> args, err |-> err, ret |-> ret]

\* one transaction: endorsement computes res on the committed state, commit
\* applies its write set; `changed` is the waste whose status it sets, if any
Invoke(fn, args, res, changed) ==
    /\ (res.err = NoErr /\ res.writes # <<>>) => clock < MaxClock
    /\ worldState' = Commit(worldState, res)
    /\ clock' = IF res.err = NoErr /\ res.writes # <<>> THEN clock + 1 ELSE clock
    /\ lastTx' = Tx(fn, args, res.err, <<>>)
    /\ applied' = IF res.err = NoErr /\ changed \in DOMAIN applied
                  THEN [applied EXCEPT ![changed] = @ + 1]
                  ELSE applied

InitLedger ==
    /\ Invoke("InitLedger", <<>>, InitLedgerTx(clock), <<>>)
    /\ UNCHANGED serviceVars

CreateWaste(id, quantity) ==
    /\ Invoke("CreateWaste", <<id>>,
              CreateWasteTx(worldState, clock, id, "Branches", quantity,
                            "2025-06-01", "farmer1", "", "Andalusia"),
              <<>>)
    /\ UNCHANGED serviceVars

UpdateWasteStatus(id, newStatus) ==
    /\ Invoke("UpdateWasteStatus", <<id, newStatus>>,
              UpdateWasteStatusTx(worldState, clock, id, newStatus, "actor1", <<"note">>),
              id)
    /\ UNCHANGED serviceVars

CreateExtraction(id, wasteId, quantity) ==
    /\ Invoke("CreateExtraction", <<id, wasteId>>,
              CreateExtractionTx(worldState, clock, id, wasteId, "Oil", quantity,
                                 "Extra", "processor1"),
              wasteId)
    /\ UNCHANGED serviceVars

CreateRecycling(id, wasteId, quantity) ==
    /\ Invoke("CreateRecycling", <<id, wasteId>>,
              CreateRecyclingTx(worldState, clock, id, wasteId, "Compost", quantity,
                                "Composting", "recycler1"),
              wasteId)
    /\ UNCHANGED serviceVars

\* a GetTraceability that stores the merged chain back into the waste
QueryWrites_StoresChain(ws, fn, id) ==
    IF fn = "GetTraceability" /\ GetTraceability(ws, id).err = NoErr
    THEN <<PutState(WASTE_ \o id,
                    [ws[WASTE_ \o id] EXCEPT
                        !.history = GetTraceability(ws, id).info[1].chain])>>
    ELSE <<>>

\* the write set of GetTraceability, ReadWaste, GetAllWastes, GetAllExtractions,
\* GetAllRecyclings, WasteExists and GetWasteHistory: they call GetState and
\* GetStateByRange only
QueryWrites(ws, fn, id) == <<>>

QueryTraceability(wasteId) ==
    /\ lastTx' = Tx("GetTraceability", <<wasteId>>,
                    GetTraceability(worldState, wasteId).err,
                    GetTraceability(worldState, wasteId).info)
    /\ worldState' = ApplyWrites(worldState, QueryWrites(worldState, "GetTraceability", wasteId))
    /\ UNCHANGED <<clock, applied>>
    /\ UNCHANGED serviceVars

QueryReadWaste(id) ==
    /\ lastTx' = Tx("ReadWaste", <<id>>, ReadWaste(worldState, id).err,
                    ReadWaste(worldState, id).waste)
    /\ worldState' = ApplyWrites(worldState, QueryWrites(worldState, "ReadWaste", id))
    /\ UNCHANGED <<clock, applied>>
    /\ UNCHANGED serviceVars

QueryGetAll(fn) ==
    /\ lastTx' = Tx(fn, <<>>, NoErr,
                    CASE fn = "GetAllWastes" -> GetAllWastes(worldState)
                      [] fn = "GetAllExtractions" -> GetAllExtractions(worldState)
                      [] fn = "GetAllRecyclings" -> GetAllRecyclings(worldState))
    /\ worldState' = ApplyWrites(worldState, QueryWrites(worldState, fn, <<>>))
    /\ UNCHANGED <<clock, applied>>
    /\ UNCHANGED serviceVars

QueryWasteExists(id) ==
    /\ lastTx' = Tx("WasteExists", <<id>>, NoErr, <<WasteExists(worldState, id)>>)
    /\ worldState' = ApplyWrites(worldState, QueryWrites(worldState, "WasteExists", id))
    /\ UNCHANGED <<clock, applied>>
    /\ UNCHANGED serviceVars

QueryGetWasteHistory(id) ==
    /\ lastTx' = Tx("GetWasteHistory", <<id>>, ReadWaste(worldState, id).err,
                    IF ReadWaste(worldState, id).err = NoErr
                    THEN ReadWaste(worldState, id).waste[1].history ELSE <<>>)
    /\ worldState' = ApplyWrites(worldState, QueryWrites(worldState, "GetWasteHistory", id))
    /\ UNCHANGED <<clock, applied>>
    /\ UNCHANGED serviceVars

----------------------------------------------------------------------------
(* The service: exported client of blockchain/enhancedClient                *)

Controllers == {"waste", "extraction", "recycling"}

\* null: a value no date takes
Null == -100

DEFAULT_ == <<68, 69, 70, 65, 85, 76, 84, 95>>
WASTE_DEFAULT_1 == WASTE_ \o DEFAULT_ \o <<49>>
WASTE_DEFAULT_2 == WASTE_ \o DEFAULT_ \o <<50>>
EXTRACTION_DEFAULT_1 == EXTRACTION_ \o DEFAULT_ \o <<49>>
RECYCLING_DEFAULT_1 == RECYCLING_ \o DEFAULT_ \o <<49>>
IdGhost == <<103, 104, 111, 115, 116>>

\* `${PREFIX}_${Date.now()}_${Math.random().toString(36).substr(2, 9)}`
GenId(prefix, now) == prefix \o <<48 + now>> \o <<95, 120>>

\* { ...a, ...b }
Spread(a, b) ==
    [f \in DOMAIN a \cup DOMAIN b |-> IF f \in DOMAIN b THEN b[f] ELSE a[f]]

LinkFunctions == {"LinkExtractionToWaste", "LinkRecyclingToWaste"}

ClientFunctions ==
    {"CreateWaste", "UpdateWasteStatus", "GetAllWastes",
     "CreateExtraction", "GetAllExtractions", "GetExtraction", "GetExtractionsByWasteId",
     "CreateRecycling", "GetAllRecyclings", "GetRecycling", "GetRecyclingsByWasteId",
     "GetCompleteTraceability", "UpdateExtractionStatus", "GetWasteHistory",
     "getNetworkInfo"} \cup LinkFunctions

\* the exported class answers every call itself: no call fails, no query
\* finds a record
MockGateway == [failing |-> {}, rows |-> 0]

\* the full client of the same file forwards each call to the Fabric
\* gateway, where a call can fail and a query can return records
Gateways ==
    { MockGateway,
      [failing |-> ClientFunctions, rows |-> 0],
      [failing |-> LinkFunctions, rows |-> 0],
      [failing |-> {}, rows |-> 1] }

\* a record as the ledger returns it
LedgerRow == [id |-> IdWaste1, wasteId |-> IdWaste1, status |-> "COLLECTED"]

ClientSubmitTransaction(orgName, functionName, args) ==
    [threw |-> functionName \in gateway.failing, transactionId |-> "mock_tx"]

\* query and queryAll: null or [] is the empty sequence
ClientQuery(orgName, functionName, args) ==
    [threw |-> functionName \in gateway.failing,
     result |-> IF gateway.rows = 0 THEN <<>> ELSE <<LedgerRow>>]

\* the client called whether or not the ledger is initialized
Calls_Always(initialized, made) == made

\* the calls a handler made, given which of them it reached
Calls(initialized, made) == IF initialized THEN made ELSE <<>>

Response(op, status, success, source, data) ==
    [op |-> op, status |-> status, success |-> success, source |-> source, data |-> data]

Reply(r) ==
    /\ response' = r
    /\ dateNow' = dateNow + 1
    /\ UNCHANGED gateway
    /\ UNCHANGED clientVars
    /\ UNCHANGED standaloneVars
    /\ UNCHANGED requests
    /\ UNCHANGED ledgerVars

RECURSIVE FindIndexFrom(_, _, _)
FindIndexFrom(list, id, i) ==
    IF i > Len(list) THEN -1
    ELSE IF list[i].id = id \/ list[i].wasteId = id THEN i
    ELSE FindIndexFrom(list, id, i + 1)

tempWastesSeed ==
    << [id |-> WASTE_DEFAULT_1, wasteId |-> WASTE_DEFAULT_1, farmerId |-> "farmer_001",
        type |-> "Branches", quantity |-> 5000, harvestDate |-> 0, status |-> "READY",
        location |-> "Farm Block A", qualityGrade |-> "A", moistureContent |-> "15%",
        timestamp |-> 0, transferDate |-> Null],
       [id |-> WASTE_DEFAULT_2, wasteId |-> WASTE_DEFAULT_2, farmerId |-> "farmer_001",
        type |-> "Feuilles", quantity |-> 3000, harvestDate |-> -1, status |-> "TRANSFERRED",
        location |-> "Farm Block B", qualityGrade |-> "A", moistureContent |-> "18%",
        timestamp |-> -1, transferDate |-> 0] >>

extractionsSeed ==
    << [id |-> EXTRACTION_DEFAULT_1, extractionId |-> EXTRACTION_DEFAULT_1,
        wasteId |-> WASTE_DEFAULT_1, processorId |-> "processor_001",
        extractionDate |-> 0, productType |-> "Huile d'olive", quantity |-> 1000,
        quality |-> "Extra Vierge", extractionMethod |-> "Cold Press",
        temperature |-> "27C", pressure |-> "3 bars", yieldPercentage |-> 20,
        status |-> "PROCESSED", timestamp |-> 0] >>

recyclingsSeed ==
    << [id |-> RECYCLING_DEFAULT_1, recyclingId |-> RECYCLING_DEFAULT_1,
        wasteId |-> WASTE_DEFAULT_2, recyclerId |-> "recycler_001",
        recyclingDate |-> 0, recycledProduct |-> "Compost", quantity |-> 2500,
        method |-> "Compostage", qualityGrade |-> "Premium",
        processingTime |-> "14 days", environmentalImpact |-> "Carbon Negative",
        certifications |-> <<"Organic", "EU Certified">>,
        status |-> "COMPLETED", timestamp |-> 0] >>

\* initialize() catches its own failure and returns false, so the await in
\* initializeBlockchain never throws
initializeBlockchain(c, ok) ==
    /\ ~blockchainInitialized[c]
    /\ isInitialized' = [isInitialized EXCEPT ![c] = ok]
    /\ blockchainInitialized' = [blockchainInitialized EXCEPT ![c] = TRUE]
    /\ UNCHANGED <<tempWastes, extractions, recyclings, dateNow, response>>
    /\ UNCHANGED <<gateway, clientLog, degraded>>
    /\ UNCHANGED clientVars
    /\ UNCHANGED standaloneVars
    /\ UNCHANGED requests
    /\ UNCHANGED ledgerVars

\* the provenance label with a failed ledger create taken for a skipped one
CreateSource_ErrorTemporary(initialized, result) ==
    IF initialized /\ ~result.threw THEN "blockchain" ELSE "temporary"

\* the three branches of a create: try, catch, else
CreateSource(initialized, result) ==
    IF ~initialized THEN "temporary"
    ELSE IF result.threw THEN "fallback"
    ELSE "blockchain"

addWaste(hasData, wasteData) ==
    /\ dateNow <= MaxRequests
    /\ UNCHANGED <<blockchainInitialized, isInitialized, extractions, recyclings>>
    /\ IF ~hasData
       THEN /\ Reply(Response("addWaste", 400, FALSE, "", <<"Missing waste data">>))
            /\ clientLog' = <<>>
            /\ UNCHANGED <<tempWastes, degraded>>
       ELSE IF wasteData.type = "" \/ wasteData.quantity = 0
               \/ wasteData.harvestDate = "" \/ wasteData.status = ""
       THEN /\ Reply(Response("addWaste", 400, FALSE, "", <<"Incomplete data">>))
            /\ clientLog' = <<>>
            /\ UNCHANGED <<tempWastes, degraded>>
       ELSE LET wasteId == GenId(WASTE_, dateNow)
                blockchainWasteData ==
                    [wasteId |-> wasteId, farmerId |-> "farmer_001",
                     type |-> wasteData.type, quantity |-> wasteData.quantity,
                     harvestDate |-> wasteData.harvestDate, status |-> wasteData.status,
                     location |-> "Default Farm Location", qualityGrade |-> "A",
                     moistureContent |-> "15%", timestamp |-> dateNow,
                     transferDate |-> Null]
                newWaste == Spread([id |-> wasteId], blockchainWasteData)
                result == ClientSubmitTransaction("farmer", "CreateWaste",
                                                  <<wasteId, blockchainWasteData>>)
                source == CreateSource(blockchainInitialized["waste"], result)
            IN  /\ tempWastes' = Append(tempWastes, newWaste)
                /\ clientLog' = Calls(blockchainInitialized["waste"], <<"CreateWaste">>)
                /\ degraded' = IF blockchainInitialized["waste"] /\ result.threw
                               THEN degraded \cup {wasteId} ELSE degraded
                /\ Reply(Response("addWaste", 201, TRUE, source, <<newWaste>>))

updateWasteStatus(wasteId, newStatus, transferData) ==
    /\ dateNow <= MaxRequests
    /\ UNCHANGED <<blockchainInitialized, isInitialized, extractions, recyclings, degraded>>
    /\ clientLog' = IF wasteId = <<>> \/ newStatus = "" THEN <<>>
                    ELSE Calls(blockchainInitialized["waste"], <<"UpdateWasteStatus">>)
    /\ IF wasteId = <<>> \/ newStatus = ""
       THEN /\ Reply(Response("updateWasteStatus", 400, FALSE, "",
                              <<"Missing required fields">>))
            /\ UNCHANGED tempWastes
       ELSE LET updateData ==
                    [status |-> newStatus,
                     transferDate |-> IF transferData # <<>> /\ transferData[1].transferDate # Null
                                      THEN transferData[1].transferDate ELSE dateNow,
                     processorId |-> IF transferData # <<>> /\ transferData[1].processorId # ""
                                     THEN transferData[1].processorId ELSE "processor_001",
                     updatedAt |-> dateNow]
                result == ClientSubmitTransaction("farmer", "UpdateWasteStatus",
                                                  <<wasteId, newStatus, updateData>>)
                wasteIndex == FindIndexFrom(tempWastes, wasteId, 1)
                updated == IF wasteIndex # -1
                           THEN [tempWastes EXCEPT ![wasteIndex] =
                                    Spread(Spread(@, [status |-> newStatus]), updateData)]
                           ELSE tempWastes
            IN  IF blockchainInitialized["waste"] /\ ~result.threw
                THEN /\ tempWastes' = updated
                     /\ Reply(Response("updateWasteStatus", 200, TRUE, "blockchain",
                                       <<wasteId, newStatus>>))
                ELSE IF wasteIndex # -1
                THEN /\ tempWastes' = updated
                     /\ Reply(Response("updateWasteStatus", 200, TRUE,
                                       IF blockchainInitialized["waste"]
                                       THEN "fallback" ELSE "temporary",
                                       <<wasteId, newStatus>>))
                ELSE /\ UNCHANGED tempWastes
                     /\ Reply(Response("updateWasteStatus", 404, FALSE, "",
                                       <<"Waste not found", wasteId>>))

\* a create that issues the link call even after its primary call threw
CreateCalls_LinkAlways(primary, link, result) == <<primary, link>>

\* the calls of the try block of a create: the link call sits after the
\* primary call's await, so a primary call that throws skips it
CreateCalls(primary, link, result) ==
    IF result.threw THEN <<primary>> ELSE <<primary, link>>

\* the link call without its own try/catch: its failure leaves the outer try
LinkEscapes_Uncaught(link) == link.threw

\* the inner try/catch around the link call swallows its failure
LinkEscapes(link) == FALSE

addExtraction(hasData, extractionData) ==
    /\ dateNow <= MaxRequests
    /\ UNCHANGED <<blockchainInitialized, isInitialized, tempWastes, recyclings, degraded>>
    /\ IF ~hasData
       THEN /\ Reply(Response("addExtraction", 400, FALSE, "", <<"Missing extraction data">>))
            /\ clientLog' = <<>>
            /\ UNCHANGED extractions
       ELSE IF extractionData.wasteId = <<>> \/ extractionData.productType = ""
               \/ extractionData.quantity = 0 \/ extractionData.quality = ""
       THEN /\ Reply(Response("addExtraction", 400, FALSE, "", <<"Incomplete data">>))
            /\ clientLog' = <<>>
            /\ UNCHANGED extractions
       ELSE LET extractionId == GenId(EXTRACTION_, dateNow)
                blockchainExtractionData ==
                    [extractionId |-> extractionId, wasteId |-> extractionData.wasteId,
                     processorId |-> "processor_001", extractionDate |-> dateNow,
                     productType |-> extractionData.productType,
                     quantity |-> extractionData.quantity,
                     quality |-> extractionData.quality,
                     extractionMethod |-> "Cold Press", temperature |-> "27C",
                     pressure |-> "3 bars", yieldPercentage |-> 20,
                     status |-> "PROCESSED", timestamp |-> dateNow]
                newExtraction == Spread([id |-> extractionId], blockchainExtractionData)
                result == ClientSubmitTransaction("processor", "CreateExtraction",
                                                  <<extractionId, blockchainExtractionData>>)
                link == ClientSubmitTransaction("processor", "LinkExtractionToWaste",
                                                <<extractionData.wasteId, extractionId>>)
                initialized == blockchainInitialized["extraction"]
                \* the outer try is left early by a failed create, or by a
                \* failed link after the record was pushed
                escaped == ~result.threw /\ LinkEscapes(link)
                source == CreateSource(initialized,
                                       [result EXCEPT !.threw = @ \/ escaped])
            IN  /\ extractions' = IF initialized /\ escaped
                          THEN Append(Append(extractions, newExtraction), newExtraction)
                          ELSE Append(extractions, newExtraction)
                /\ clientLog' = Calls(initialized,
                                      CreateCalls("CreateExtraction",
                                                  "LinkExtractionToWaste", result))
                /\ Reply(Response("addExtraction", 201, TRUE, source, <<newExtraction>>))

addRecycling(hasData, recyclingData) ==
    /\ dateNow <= MaxRequests
    /\ UNCHANGED <<blockchainInitialized, isInitialized, tempWastes, extractions, degraded>>
    /\ IF ~hasData
       THEN /\ Reply(Response("addRecycling", 400, FALSE, "", <<"Missing recycling data">>))
            /\ clientLog' = <<>>
            /\ UNCHANGED recyclings
       ELSE IF recyclingData.wasteId = <<>> \/ recyclingData.recycledProduct = ""
               \/ recyclingData.quantity = 0 \/ recyclingData.method = ""
       THEN /\ Reply(Response("addRecycling", 400, FALSE, "", <<"Incomplete data">>))
            /\ clientLog' = <<>>
            /\ UNCHANGED recyclings
       ELSE LET recyclingId == GenId(RECYCLING_, dateNow)
                blockchainRecyclingData ==
                    [recyclingId |-> recyclingId, wasteId |-> recyclingData.wasteId,
                     recyclerId |-> "recycler_001", recyclingDate |-> dateNow,
                     recycledProduct |-> recyclingData.recycledProduct,
                     quantity |-> recyclingData.quantity,
                     method |-> recyclingData.method,
                     qualityGrade |-> "Standard", processingTime |-> "7 days",
                     environmentalImpact |-> "Positive",
                     certifications |-> <<"Standard">>,
                     status |-> "COMPLETED", timestamp |-> dateNow]
                newRecycling == Spread([id |-> recyclingId], blockchainRecyclingData)
                result == ClientSubmitTransaction("recycler", "CreateRecycling",
                                                  <<recyclingId, blockchainRecyclingData>>)
                link == ClientSubmitTransaction("recycler", "LinkRecyclingToWaste",
                                                <<recyclingData.wasteId, recyclingId>>)
                initialized == blockchainInitialized["recycling"]
                \* the outer try is left early by a failed create, or by a
                \* failed link after the record was pushed
                escaped == ~result.threw /\ LinkEscapes(link)
                source == CreateSource(initialized,
                                       [result EXCEPT !.threw = @ \/ escaped])
            IN  /\ recyclings' = IF initialized /\ escaped
                          THEN Append(Append(recyclings, newRecycling), newRecycling)
                          ELSE Append(recyclings, newRecycling)
                /\ clientLog' = Calls(initialized,
                                      CreateCalls("CreateRecycling",
                                                  "LinkRecyclingToWaste", result))
                /\ Reply(Response("addRecycling", 201, TRUE, source, <<newRecycling>>))

\* list.filter((e) => e.wasteId === wasteId)
FilterByWasteId(list, wasteId) ==
    LET Related(e) == e.wasteId = wasteId
    IN  SelectSeq(list, Related)

\* list.find((e) => e.id === id || e[idField] === id); undefined is <<>>
FindById(list, idField, id) ==
    LET Match(e) == e.id = id \/ e[idField] = id
        found == SelectSeq(list, Match)
    IN  IF found = <<>> THEN <<>> ELSE <<Head(found)>>

\* a list answer that hands back the empty ledger result instead of the mirror
ListResponse_EmptyLedger(op, initialized, q, mirror) ==
    LET list == IF initialized /\ ~q.threw THEN q.result ELSE mirror
        source == IF initialized /\ q.threw THEN "fallback"
                  ELSE IF initialized /\ q.result # <<>> THEN "blockchain"
                  ELSE "temporary"
    IN  Spread(Response(op, 200, TRUE, source, list), [count |-> Len(list)])

\* the answer of listWaste / listExtractions / listRecyclings
ListResponse(op, initialized, q, mirror) ==
    LET fromLedger == initialized /\ ~q.threw /\ q.result # <<>>
        list == IF fromLedger THEN q.result ELSE mirror
        source == IF fromLedger THEN "blockchain"
                  ELSE IF initialized /\ q.threw THEN "fallback"
                  ELSE "temporary"
    IN  Spread(Response(op, 200, TRUE, source, list), [count |-> Len(list)])

listWaste ==
    /\ dateNow <= MaxRequests
    /\ Reply(ListResponse("listWaste", blockchainInitialized["waste"],
                          ClientQuery("farmer", "GetAllWastes", <<>>), tempWastes))
    /\ clientLog' = Calls(blockchainInitialized["waste"], <<"GetAllWastes">>)
    /\ UNCHANGED <<blockchainInitialized, isInitialized, tempWastes, extractions,
                   recyclings, degraded>>

listExtractions ==
    /\ dateNow <= MaxRequests
    /\ Reply(ListResponse("listExtractions", blockchainInitialized["extraction"],
                          ClientQuery("processor", "GetAllExtractions", <<>>), extractions))
    /\ clientLog' = Calls(blockchainInitialized["extraction"], <<"GetAllExtractions">>)
    /\ UNCHANGED <<blockchainInitialized, isInitialized, tempWastes, extractions,
                   recyclings, degraded>>

listRecyclings ==
    /\ dateNow <= MaxRequests
    /\ Reply(ListResponse("listRecyclings", blockchainInitialized["recycling"],
                          ClientQuery("recycler", "GetAllRecyclings", <<>>), recyclings))
    /\ clientLog' = Calls(blockchainInitialized["recycling"], <<"GetAllRecyclings">>)
    /\ UNCHANGED <<blockchainInitialized, isInitialized, tempWastes, extractions,
                   recyclings, degraded>>

\* the answer of getExtractionById / getRecyclingById
ByIdResponse(op, initialized, q, mirror, idField, id) ==
    IF id = <<>>
    THEN Response(op, 400, FALSE, "", <<"Missing id parameter">>)
    ELSE IF initialized /\ ~q.threw /\ q.result # <<>>
    THEN Response(op, 200, TRUE, "blockchain", q.result)
    ELSE IF FindById(mirror, idField, id) # <<>>
    THEN Response(op, 200, TRUE, IF initialized THEN "fallback" ELSE "temporary",
                  FindById(mirror, idField, id))
    ELSE Response(op, 404, FALSE, "", <<"not found", id>>)

getExtractionById(extractionId) ==
    /\ dateNow <= MaxRequests
    /\ Reply(ByIdResponse("getExtractionById", blockchainInitialized["extraction"],
                          ClientQuery("processor", "GetExtraction", <<extractionId>>),
                          extractions, "extractionId", extractionId))
    /\ clientLog' = IF extractionId = <<>> THEN <<>>
                    ELSE Calls(blockchainInitialized["extraction"], <<"GetExtraction">>)
    /\ UNCHANGED <<blockchainInitialized, isInitialized, tempWastes, extractions,
                   recyclings, degraded>>

getRecyclingById(recyclingId) ==
    /\ dateNow <= MaxRequests
    /\ Reply(ByIdResponse("getRecyclingById", blockchainInitialized["recycling"],
                          ClientQuery("recycler", "GetRecycling", <<recyclingId>>),
                          recyclings, "recyclingId", recyclingId))
    /\ clientLog' = IF recyclingId = <<>> THEN <<>>
                    ELSE Calls(blockchainInitialized["recycling"], <<"GetRecycling">>)
    /\ UNCHANGED <<blockchainInitialized, isInitialized, tempWastes, extractions,
                   recyclings, degraded>>

\* the answer of getExtractionsByWasteId / getRecyclingsByWasteId: the
\* mirror is filtered in the catch and in the else branch only
ByWasteResponse(op, initialized, q, mirror, wasteId) ==
    IF wasteId = <<>>
    THEN Response(op, 400, FALSE, "", <<"Missing wasteId parameter">>)
    ELSE LET related == IF ~initialized THEN FilterByWasteId(mirror, wasteId)
                        ELSE IF q.threw THEN FilterByWasteId(mirror, wasteId)
                        ELSE IF q.result # <<>> THEN q.result
                        ELSE <<>>
             source == IF ~initialized THEN "temporary"
                       ELSE IF q.threw THEN "fallback"
                       ELSE IF q.result # <<>> THEN "blockchain"
                       ELSE "temporary"
         IN  Spread(Response(op, 200, TRUE, source, related),
                    [count |-> Len(related), wasteId |-> wasteId])

getExtractionsByWasteId(wasteId) ==
    /\ dateNow <= MaxRequests
    /\ Reply(ByWasteResponse("getExtractionsByWasteId", blockchainInitialized["extraction"],
                             ClientQuery("processor", "GetExtractionsByWasteId", <<wasteId>>),
                             extractions, wasteId))
    /\ clientLog' = IF wasteId = <<>> THEN <<>>
                    ELSE Calls(blockchainInitialized["extraction"],
                               <<"GetExtractionsByWasteId">>)
    /\ UNCHANGED <<blockchainInitialized, isInitialized, tempWastes, extractions,
                   recyclings, degraded>>

getRecyclingsByWasteId(wasteId) ==
    /\ dateNow <= MaxRequests
    /\ Reply(ByWasteResponse("getRecyclingsByWasteId", blockchainInitialized["recycling"],
                             ClientQuery("recycler", "GetRecyclingsByWasteId", <<wasteId>>),
                             recyclings, wasteId))
    /\ clientLog' = IF wasteId = <<>> THEN <<>>
                    ELSE Calls(blockchainInitialized["recycling"],
                               <<"GetRecyclingsByWasteId">>)
    /\ UNCHANGED <<blockchainInitialized, isInitialized, tempWastes, extractions,
                   recyclings, degraded>>

\* fetchOk: the two requests to http://localhost:5000/api/waste and
\* /api/extraction were answered; they are answered by listWaste and
\* listExtractions of this very service
getCompleteTraceability(wasteId, fetchOk) ==
    /\ dateNow <= MaxRequests
    /\ UNCHANGED <<blockchainInitialized, isInitialized, tempWastes, extractions,
                   recyclings, degraded>>
    /\ IF wasteId = <<>>
       THEN /\ Reply(Response("getCompleteTraceability", 400, FALSE, "",
                              <<"Missing wasteId parameter">>))
            /\ clientLog' = <<>>
       ELSE LET initialized == blockchainInitialized["recycling"]
                q == ClientQuery("recycler", "GetCompleteTraceability", <<wasteId>>)
                wasteData == ListResponse("listWaste", blockchainInitialized["waste"],
                                 ClientQuery("farmer", "GetAllWastes", <<>>), tempWastes)
                extractionData == ListResponse("listExtractions",
                                 blockchainInitialized["extraction"],
                                 ClientQuery("processor", "GetAllExtractions", <<>>),
                                 extractions)
                traceabilityChain ==
                    [wasteId |-> wasteId,
                     waste |-> IF fetchOk THEN FindById(wasteData.data, "wasteId", wasteId)
                               ELSE <<>>,
                     extractions |-> IF fetchOk
                                     THEN FilterByWasteId(extractionData.data, wasteId)
                                     ELSE <<>>,
                     recyclings |-> FilterByWasteId(recyclings, wasteId),
                     source |-> "constructed"]
            IN  IF initialized /\ ~q.threw /\ q.result # <<>>
                THEN /\ Reply(Response("getCompleteTraceability", 200, TRUE,
                                       "blockchain", q.result))
                     /\ clientLog' = <<"GetCompleteTraceability">>
                ELSE /\ Reply(Response("getCompleteTraceability", 200, TRUE,
                                       IF initialized THEN "fallback" ELSE "temporary",
                                       <<traceabilityChain>>))
                     /\ clientLog' =
                            Calls(initialized, <<"GetCompleteTraceability">>)
                            \o (IF fetchOk
                                THEN Calls(blockchainInitialized["waste"], <<"GetAllWastes">>)
                                     \o Calls(blockchainInitialized["extraction"],
                                              <<"GetAllExtractions">>)
                                ELSE <<>>)

\* list.findIndex((e) => e.id === id || e[idField] === id)
RECURSIVE FindIndexBy(_, _, _, _)
FindIndexBy(list, idField, id, i) ==
    IF i > Len(list) THEN -1
    ELSE IF list[i].id = id \/ list[i][idField] = id THEN i
    ELSE FindIndexBy(list, idField, id, i + 1)

\* the required-field test that lets an empty newStatus through
MissingUpdateFields_IdOnly(id, newStatus) == id = <<>>

\* !extractionId || !newStatus
MissingUpdateFields(id, newStatus) == id = <<>> \/ newStatus = ""

\* updateData is spread last, over every field of the mirror record
updateExtractionStatus(extractionId, newStatus, updateData) ==
    /\ dateNow <= MaxRequests
    /\ UNCHANGED <<blockchainInitialized, isInitialized, tempWastes, recyclings, degraded>>
    /\ IF MissingUpdateFields(extractionId, newStatus)
       THEN /\ Reply(Response("updateExtractionStatus", 400, FALSE, "",
                              <<"Missing required fields">>))
            /\ clientLog' = <<>>
            /\ UNCHANGED extractions
       ELSE LET initialized == blockchainInitialized["extraction"]
                updatePayload == Spread([status |-> newStatus, updatedAt |-> dateNow],
                                        updateData)
                result == ClientSubmitTransaction("processor", "UpdateExtractionStatus",
                                                  <<extractionId, newStatus, updatePayload>>)
                extractionIndex == FindIndexBy(extractions, "extractionId", extractionId, 1)
                updated == IF extractionIndex # -1
                           THEN [extractions EXCEPT ![extractionIndex] =
                                    Spread(Spread(@, [status |-> newStatus]), updatePayload)]
                           ELSE extractions
            IN  /\ clientLog' = Calls(initialized, <<"UpdateExtractionStatus">>)
                /\ IF initialized /\ ~result.threw
                   THEN /\ extractions' = updated
                        /\ Reply(Response("updateExtractionStatus", 200, TRUE,
                                          "blockchain", <<extractionId, newStatus>>))
                   ELSE IF extractionIndex # -1
                   THEN /\ extractions' = updated
                        /\ Reply(Response("updateExtractionStatus", 200, TRUE,
                                          IF initialized THEN "fallback" ELSE "temporary",
                                          <<extractionId, newStatus>>))
                   ELSE /\ UNCHANGED extractions
                        /\ Reply(Response("updateExtractionStatus", 404, FALSE, "",
                                          <<"Extraction not found", extractionId>>))

\* a history answer that leaves the label off the constructed history
HistoryResponse_Unlabelled(initialized, q, mirror, wasteId) ==
    IF wasteId = <<>>
    THEN Response("getWasteHistory", 400, FALSE, "", <<"Missing wasteId parameter">>)
    ELSE IF initialized /\ ~q.threw /\ q.result # <<>>
    THEN Response("getWasteHistory", 200, TRUE, "blockchain", q.result)
    ELSE IF FindById(mirror, "wasteId", wasteId) # <<>>
    THEN Response("getWasteHistory", 200, TRUE, "", <<"CREATED">>)
    ELSE Response("getWasteHistory", 404, FALSE, "", <<"Waste not found", wasteId>>)

\* the answer of getWasteHistory: the ledger history when it is non-empty,
\* else a history constructed from the mirror record
HistoryResponse(initialized, q, mirror, wasteId) ==
    IF wasteId = <<>>
    THEN Response("getWasteHistory", 400, FALSE, "", <<"Missing wasteId parameter">>)
    ELSE IF initialized /\ ~q.threw /\ q.result # <<>>
    THEN Response("getWasteHistory", 200, TRUE, "blockchain", q.result)
    ELSE LET waste == FindById(mirror, "wasteId", wasteId)
         IN  IF waste # <<>>
             THEN Response("getWasteHistory", 200, TRUE, "constructed",
                           IF waste[1].status = "TRANSFERRED" /\ waste[1].transferDate # Null
                           THEN <<"CREATED", "TRANSFERRED">>
                           ELSE <<"CREATED">>)
             ELSE Response("getWasteHistory", 404, FALSE, "", <<"Waste not found", wasteId>>)

getWasteHistory(wasteId) ==
    /\ dateNow <= MaxRequests
    /\ Reply(HistoryResponse(blockchainInitialized["waste"],
                             ClientQuery("farmer", "GetWasteHistory", <<wasteId>>),
                             tempWastes, wasteId))
    /\ clientLog' = IF wasteId = <<>> THEN <<>>
                    ELSE Calls(blockchainInitialized["waste"], <<"GetWasteHistory">>)
    /\ UNCHANGED <<blockchainInitialized, isInitialized, tempWastes, extractions,
                   recyclings, degraded>>

\* the status answer has a success flag and no source field
getBlockchainStatus ==
    /\ dateNow <= MaxRequests
    /\ Reply(Response("getBlockchainStatus", 200, TRUE, "",
                      <<[initialized |-> blockchainInitialized["waste"],
                         connected |-> /\ blockchainInitialized["waste"]
                                       /\ "getNetworkInfo" \notin gateway.failing]>>))
    /\ clientLog' = Calls(blockchainInitialized["waste"], <<"getNetworkInfo">>)
    /\ UNCHANGED <<blockchainInitialized, isInitialized, tempWastes, extractions,
                   recyclings, degraded>>

\* the gateway comes up, goes down, or its ledger gains records
GatewayChange(g) ==
    /\ gateway # g
    /\ gateway' = g
    /\ UNCHANGED <<blockchainInitialized, isInitialized, tempWastes, extractions,
                   recyclings, dateNow, response, clientLog, degraded>>
    /\ UNCHANGED clientVars
    /\ UNCHANGED standaloneVars
    /\ UNCHANGED requests
    /\ UNCHANGED ledgerVars

----------------------------------------------------------------------------
(* The Fabric clients: blockchain/hlfClient.submitTransaction and the       *)
(* BlockchainClient class (submitTransaction, queryBlockchain). Each call   *)
(* runs step by step; calls interleave at their awaits.                     *)

Organizations == {"farmer", "processor", "recycler"}

Frame(fn, pc, gw, failed, outcome) ==
    [fn |-> fn, pc |-> pc, gateway |-> gw, failed |-> failed, outcome |-> outcome]

\* new Gateway(): an object only the creating call holds
Session(owner) == [owner |-> owner, state |-> "new", users |-> {}]

nonClientVars ==
    <<worldState, clock, lastTx, applied, blockchainInitialized, isInitialized,
      tempWastes, extractions, recyclings, dateNow, response, gateway, clientLog,
      degraded, wasteState, wasteClock, wasteTx, requests>>

\* BlockchainClient.initialize
BlockchainClientInitialize(ok) ==
    /\ fullClient.isInitialized # ok
    /\ fullClient' = [fullClient EXCEPT !.isInitialized = ok]
    /\ UNCHANGED <<calls, sessions>>
    /\ UNCHANGED nonClientVars

\* hlfClient.submitTransaction is entered: gateway is still undefined
hlfSubmitTransaction ==
    /\ Len(calls) < MaxCalls
    /\ calls' = Append(calls, Frame("hlfClient.submitTransaction", "wallet", 0, FALSE, "none"))
    /\ UNCHANGED <<fullClient, sessions>>
    /\ UNCHANGED nonClientVars

\* BlockchainClient.submitTransaction / queryBlockchain is entered: both
\* throw before the try block when the client is not initialized or the
\* organization is unknown
BlockchainClientCall(fn, orgName) ==
    /\ Len(calls) < MaxCalls
    /\ calls' = Append(calls,
                  IF ~fullClient.isInitialized \/ orgName \notin Organizations
                  THEN Frame(fn, "done", 0, TRUE, "threw")
                  ELSE Frame(fn, "wallet", 0, FALSE, "none"))
    /\ UNCHANGED <<fullClient, sessions>>
    /\ UNCHANGED nonClientVars

\* the wallet lookup; with the identity found the call creates its Gateway
WalletGet(i, ok) ==
    /\ calls[i].pc = "wallet"
    /\ IF ok
       THEN /\ sessions' = Append(sessions, Session(i))
            /\ calls' = [calls EXCEPT ![i].pc = "connect",
                                      ![i].gateway = Len(sessions) + 1]
       ELSE /\ calls' = [calls EXCEPT ![i].pc = "release", ![i].failed = TRUE]
            /\ UNCHANGED sessions
    /\ UNCHANGED fullClient
    /\ UNCHANGED nonClientVars

GatewayConnect(i, ok) ==
    /\ calls[i].pc = "connect"
    /\ sessions' = [sessions EXCEPT ![calls[i].gateway].state =
                                        IF ok THEN "connected" ELSE @,
                                    ![calls[i].gateway].users = @ \cup {i}]
    /\ calls' = IF ok
                THEN [calls EXCEPT ![i].pc = "call"]
                ELSE [calls EXCEPT ![i].pc = "release", ![i].failed = TRUE]
    /\ UNCHANGED fullClient
    /\ UNCHANGED nonClientVars

\* getNetwork, getContract and the submitTransaction / evaluateTransaction of
\* the contract; hlfClient disconnects next inside its try block, the class
\* leaves the try block for its finally
ContractCall(i, ok) ==
    /\ calls[i].pc = "call"
    /\ sessions' = [sessions EXCEPT ![calls[i].gateway].users = @ \cup {i}]
    /\ calls' = IF ~ok
                THEN [calls EXCEPT ![i].pc = "release", ![i].failed = TRUE]
                ELSE IF calls[i].fn = "hlfClient.submitTransaction"
                THEN [calls EXCEPT ![i].pc = "disconnect"]
                ELSE [calls EXCEPT ![i].pc = "release"]
    /\ UNCHANGED fullClient
    /\ UNCHANGED nonClientVars

\* hlfClient.submitTransaction on its success path: disconnect, then return
GatewayDisconnect(i) ==
    /\ calls[i].pc = "disconnect"
    /\ sessions' = [sessions EXCEPT ![calls[i].gateway].state = "closed"]
    /\ calls' = [calls EXCEPT ![i].pc = "done", ![i].outcome = "returned"]
    /\ UNCHANGED fullClient
    /\ UNCHANGED nonClientVars

\* a release that disconnects only when nothing failed
Disconnects_OnSuccessOnly(failed, gw) == gw # 0 /\ ~failed

\* `if (gateway) await gateway.disconnect()` of the catch / finally block
Disconnects(failed, gw) == gw # 0

\* the catch block of hlfClient.submitTransaction and the finally block of
\* the class, then the return or the rethrow
Release(i) ==
    /\ calls[i].pc = "release"
    /\ sessions' = IF Disconnects(calls[i].failed, calls[i].gateway)
                   THEN [sessions EXCEPT ![calls[i].gateway].state = "closed"]
                   ELSE sessions
    /\ calls' = [calls EXCEPT ![i].pc = "done",
                              ![i].outcome = IF calls[i].failed THEN "threw"
                                                                ELSE "returned"]
    /\ UNCHANGED fullClient
    /\ UNCHANGED nonClientVars

----------------------------------------------------------------------------
(* The standalone waste chaincode, blockchain/chaincode/waste.go: keys are  *)
(* the bare ids, quantities and dates arrive as strings.                     *)

IsDigit(c) == c \in 48..57

RECURSIVE DigitsValue(_)
DigitsValue(s) ==
    IF s = <<>> THEN 0 ELSE 10 * DigitsValue(SubSeq(s, 1, Len(s) - 1)) + (s[Len(s)] - 48)

\* strconv.Atoi: an optional sign, then one or more decimal digits
Atoi(s) ==
    LET signed == s # <<>> /\ s[1] \in {43, 45}
        digits == IF signed THEN Tail(s) ELSE s
    IN  IF digits = <<>> \/ \E i \in 1..Len(digits) : ~IsDigit(digits[i])
        THEN [ok |-> FALSE, value |-> 0]
        ELSE [ok |-> TRUE,
              value |-> IF signed /\ s[1] = 45 THEN 0 - DigitsValue(digits)
                                               ELSE DigitsValue(digits)]

daysIn(month, year) ==
    IF month = 2
    THEN IF year % 4 = 0 /\ (year % 100 # 0 \/ year % 400 = 0) THEN 29 ELSE 28
    ELSE IF month \in {4, 6, 9, 11} THEN 30 ELSE 31

\* time.Parse("2006-01-02", s): four digits, '-', two digits, '-', two
\* digits, nothing after them, and a month and day that exist
ParseDate(s) ==
    /\ Len(s) = 10
    /\ s[5] = 45
    /\ s[8] = 45
    /\ \A i \in {1, 2, 3, 4, 6, 7, 9, 10} : IsDigit(s[i])
    /\ LET year == DigitsValue(SubSeq(s, 1, 4))
           month == DigitsValue(SubSeq(s, 6, 7))
           day == DigitsValue(SubSeq(s, 9, 10))
       IN  /\ month \in 1..12
           /\ day >= 1
           /\ day <= daysIn(month, year)

StandaloneWaste(id, wasteType, qty, harvestDate, status, owner, now) ==
    [id |-> id, type |-> wasteType, quantity |-> qty, harvestDate |-> harvestDate,
     status |-> status, owner |-> owner, createdAt |-> now, updatedAt |-> now]

\* saveWaste: one PutState under the bare id
saveWaste(waste) == Result(NoErr, <<PutState(waste.id, waste)>>)

\* CreateWaste with the quantity test qty < 0
StandaloneCreateWasteTx_AcceptsZero(ws, now, id, wasteType, quantity, harvestDate, status, owner) ==
    IF id = <<>> THEN Result("empty id", <<>>)
    ELSE IF ~Atoi(quantity).ok \/ Atoi(quantity).value < 0
    THEN Result("quantity must be a positive number", <<>>)
    ELSE IF ~ParseDate(harvestDate) THEN Result("invalid date format", <<>>)
    ELSE IF id \in DOMAIN ws THEN Result("already exists", <<>>)
    ELSE saveWaste(StandaloneWaste(id, wasteType, Atoi(quantity).value,
                                   harvestDate, status, owner, now))

StandaloneCreateWasteTx(ws, now, id, wasteType, quantity, harvestDate, status, owner) ==
    IF id = <<>> THEN Result("empty id", <<>>)
    ELSE IF ~Atoi(quantity).ok \/ Atoi(quantity).value <= 0
    THEN Result("quantity must be a positive number", <<>>)
    ELSE IF ~ParseDate(harvestDate) THEN Result("invalid date format", <<>>)
    ELSE IF id \in DOMAIN ws THEN Result("already exists", <<>>)
    ELSE saveWaste(StandaloneWaste(id, wasteType, Atoi(quantity).value,
                                   harvestDate, status, owner, now))

StandaloneUpdateWasteStatusTx(ws, now, id, newStatus) ==
    IF id \notin DOMAIN ws THEN Result("does not exist", <<>>)
    ELSE saveWaste([ws[id] EXCEPT !.status = newStatus, !.updatedAt = now])

\* one transaction of the standalone chaincode
StandaloneInvoke(fn, args, res) ==
    /\ (res.err = NoErr /\ res.writes # <<>>) => wasteClock < MaxClock
    /\ wasteState' = Commit(wasteState, res)
    /\ wasteClock' = IF res.err = NoErr /\ res.writes # <<>> THEN wasteClock + 1
                                                             ELSE wasteClock
    /\ wasteTx' = Tx(fn, args, res.err, <<>>)

nonStandaloneVars ==
    <<worldState, clock, lastTx, applied, blockchainInitialized, isInitialized,
      tempWastes, extractions, recyclings, dateNow, response, gateway, clientLog,
      degraded, fullClient, calls, sessions, requests>>

StandaloneInitLedger ==
    /\ StandaloneInvoke("InitLedger", <<>>,
                        saveWaste(StandaloneWaste(IdWaste1, "Olives", 50, Date_2023_10_01,
                                                  "READY", "farmer1", wasteClock)))
    /\ UNCHANGED nonStandaloneVars

StandaloneCreateWaste(id, wasteType, quantity, harvestDate) ==
    /\ StandaloneInvoke("CreateWaste", <<id, wasteType, quantity, harvestDate>>,
                        StandaloneCreateWasteTx(wasteState, wasteClock, id, wasteType,
                                                quantity, harvestDate, "READY", "farmer1"))
    /\ UNCHANGED nonStandaloneVars

StandaloneUpdateWasteStatus(id, newStatus) ==
    /\ StandaloneInvoke("UpdateWasteStatus", <<id, newStatus>>,
                        StandaloneUpdateWasteStatusTx(wasteState, wasteClock, id, newStatus))
    /\ UNCHANGED nonStandaloneVars

StandaloneGetWaste(id) ==
    /\ wasteTx' = IF id \in DOMAIN wasteState
                  THEN Tx("GetWaste", <<id>>, NoErr, <<wasteState[id]>>)
                  ELSE Tx("GetWaste", <<id>>, "does not exist", <<>>)
    /\ UNCHANGED <<wasteState, wasteClock>>
    /\ UNCHANGED nonStandaloneVars

\* GetStateByRange("", ""): every key, in key order
StandaloneGetAllWastes ==
    /\ wasteTx' = LET keys == SortKeys(DOMAIN wasteState)
                  IN  Tx("GetAllWastes", <<>>, NoErr,
                         [i \in 1..Len(keys) |-> wasteState[keys[i]]])
    /\ UNCHANGED <<wasteState, wasteClock>>
    /\ UNCHANGED nonStandaloneVars

\* argument strings of CreateWaste
QuantityStrings == {Quantity_50, Quantity_Plus7, Quantity_0, Quantity_Minus5, Quantity_5x, <<>>}

DateStrings == {Date_2023_10_01, Date_2024_02_29, Date_2023_02_29, Date_Slashes, Date_Short}

StandaloneIds == {<<>>, IdA, IdWaste1}

\* <<id, wasteType, quantity, harvestDate>>: well-formed calls, and calls
\* with one argument varied over the strings above
CreateWasteInputs ==
    { <<IdA, "Olives", Quantity_50, Date_2023_10_01>>,
      <<IdA, "", Quantity_Plus7, Date_2024_02_29>>,
      <<IdWaste1, "Olives", Quantity_Plus7, Date_2024_02_29>> }
    \cup { <<<<>>, "Olives", Quantity_50, Date_2023_10_01>> }
    \cup { <<IdA, "Olives", q, Date_2023_10_01>> : q \in QuantityStrings }
    \cup { <<IdA, "Olives", Quantity_50, d>> : d \in DateStrings }

\* request payloads
WasteDatas ==
    { [type |-> "Branches", quantity |-> 1000, harvestDate |-> "2025-06-01", status |-> "COLLECTED"],
      [type |-> "Branches", quantity |-> 1000, harvestDate |-> "2025-06-01", status |-> "READY"],
      [type |-> "Branches", quantity |-> -500, harvestDate |-> "2025-06-01", status |-> "COLLECTED"],
      [type |-> "Branches", quantity |-> 0, harvestDate |-> "2025-06-01", status |-> "COLLECTED"],
      [type |-> "Branches", quantity |-> 1000, harvestDate |-> "2025-06-01", status |-> ""] }

WasteRefs == {WASTE_DEFAULT_1, GenId(WASTE_, 1), IdGhost}

ValidWasteDatas ==
    { [type |-> "Branches", quantity |-> 1000, harvestDate |-> "2025-06-01", status |-> "COLLECTED"] }

ValidExtractionDatas ==
    { [wasteId |-> WASTE_DEFAULT_1, productType |-> "Oil", quantity |-> 1000, quality |-> "Extra"] }

ValidRecyclingDatas ==
    { [wasteId |-> WASTE_DEFAULT_2, recycledProduct |-> "Compost", quantity |-> 1000, method |-> "Composting"] }

UpdateDatas ==
    { <<>>, [wasteId |-> IdGhost], [id |-> IdGhost, extractionId |-> IdGhost] }

TransferDatas == {<<>>, <<[transferDate |-> 9, processorId |-> "processor_002"]>>}

ExtractionDatas ==
    { [wasteId |-> w, productType |-> "Oil", quantity |-> 1000, quality |-> "Extra"] :
          w \in WasteRefs }
    \cup { [wasteId |-> <<>>, productType |-> "Oil", quantity |-> 1000, quality |-> "Extra"],
           [wasteId |-> WASTE_DEFAULT_1, productType |-> "Oil", quantity |-> 0, quality |-> "Extra"] }

RecyclingDatas ==
    { [wasteId |-> w, recycledProduct |-> "Compost", quantity |-> 1000, method |-> "Composting"] :
          w \in WasteRefs }
    \cup { [wasteId |-> <<>>, recycledProduct |-> "Compost", quantity |-> 1000, method |-> "Composting"],
           [wasteId |-> WASTE_DEFAULT_1, recycledProduct |-> "Compost", quantity |-> 0, method |-> "Composting"] }

----------------------------------------------------------------------------

(* updateWasteStatus step by step: the handler is an async function, so a
   second request can run while the first one is suspended at
   `await blockchainClient.submitTransaction(...)` *)

\* the locals a suspended request keeps: updateData is built before the await
Request(wasteId, newStatus, updateData) ==
    [wasteId |-> wasteId, newStatus |-> newStatus, updateData |-> updateData,
     pc |-> "awaiting", threw |-> FALSE]

\* the handler up to its await: validation passed, the ledger is initialized,
\* updateData is built and the transaction is submitted
updateWasteStatusBegin(wasteId, newStatus) ==
    /\ dateNow <= MaxRequests
    /\ Len(requests) < MaxCalls
    /\ blockchainInitialized["waste"]
    /\ requests' = Append(requests,
                          Request(wasteId, newStatus,
                                  [status |-> newStatus, transferDate |-> dateNow,
                                   processorId |-> "processor_001",
                                   updatedAt |-> dateNow]))
    /\ dateNow' = dateNow + 1
    /\ UNCHANGED <<blockchainInitialized, isInitialized, tempWastes, extractions,
                   recyclings, response, gateway, clientLog, degraded>>
    /\ UNCHANGED clientVars
    /\ UNCHANGED standaloneVars
    /\ UNCHANGED ledgerVars

\* the ledger orders and commits the submitted transaction of request i
LedgerCommits(i) ==
    /\ requests[i].pc = "awaiting"
    /\ LET res == UpdateWasteStatusTx(worldState, clock, requests[i].wasteId,
                                      requests[i].newStatus, "farmer", <<"note">>)
       IN  /\ Invoke("UpdateWasteStatus", <<requests[i].wasteId, requests[i].newStatus>>,
                     res, requests[i].wasteId)
           /\ requests' = [requests EXCEPT ![i].pc = "settled",
                                           ![i].threw = (res.err # NoErr)]
    /\ UNCHANGED handlerVars

\* the handler from its await to its response: the promise of request i has
\* settled and its continuation runs; continuations of different requests run
\* in the order their promises settle in the service, which the ledger's
\* commit order does not fix
updateWasteStatusResume(i) ==
    /\ requests[i].pc = "settled"
    /\ LET r == requests[i]
           wasteIndex == FindIndexFrom(tempWastes, r.wasteId, 1)
           updated == IF wasteIndex # -1
                      THEN [tempWastes EXCEPT ![wasteIndex] =
                               Spread(Spread(@, [status |-> r.newStatus]), r.updateData)]
                      ELSE tempWastes
       IN  /\ tempWastes' = IF ~r.threw \/ wasteIndex # -1 THEN updated ELSE tempWastes
           /\ response' =
                 IF ~r.threw
                 THEN Response("updateWasteStatus", 200, TRUE, "blockchain",
                               <<r.wasteId, r.newStatus>>)
                 ELSE IF wasteIndex # -1
                 THEN Response("updateWasteStatus", 200, TRUE, "fallback",
                               <<r.wasteId, r.newStatus>>)
                 ELSE Response("updateWasteStatus", 404, FALSE, "",
                               <<"Waste not found", r.wasteId>>)
           /\ requests' = [requests EXCEPT ![i].pc = "done"]
    /\ clientLog' = <<"UpdateWasteStatus">>
    /\ UNCHANGED <<blockchainInitialized, isInitialized, extractions, recyclings,
                   dateNow, gateway, degraded>>
    /\ UNCHANGED clientVars
    /\ UNCHANGED standaloneVars
    /\ UNCHANGED ledgerVars

----------------------------------------------------------------------------
Init ==
    /\ worldState = <<>>
    /\ clock = 1
    /\ lastTx = Tx("none", <<>>, NoErr, <<>>)
    /\ applied = [id \in WasteIds |-> 0]
    /\ blockchainInitialized = [c \in Controllers |-> FALSE]
    /\ isInitialized = [c \in Controllers |-> FALSE]
    /\ tempWastes = tempWastesSeed
    /\ extractions = extractionsSeed
    /\ recyclings = recyclingsSeed
    /\ dateNow = 1
    /\ response = Response("none", 0, FALSE, "", <<>>)
    /\ gateway = MockGateway
    /\ clientLog = <<>>
    /\ degraded = {}
    /\ fullClient = [isInitialized |-> FALSE]
    /\ calls = <<>>
    /\ sessions = <<>>
    /\ wasteState = <<>>
    /\ wasteClock = 1
    /\ wasteTx = Tx("none", <<>>, NoErr, <<>>)
    /\ requests = <<>>

Next ==
    \/ \E id \in WasteIds, q \in Quantities : CreateWaste(id, q)
    \/ \E id \in WasteIds, s \in NewStatuses : UpdateWasteStatus(id, s)
    \/ \E id \in ExtractionIds, w \in WasteIds, q \in Quantities : CreateExtraction(id, w, q)
    \/ \E id \in RecyclingIds, w \in WasteIds, q \in Quantities : CreateRecycling(id, w, q)
    \/ \E w \in WasteIds : QueryTraceability(w)
    \/ \E w \in WasteIds : QueryReadWaste(w)
    \/ \E fn \in {"GetAllWastes", "GetAllExtractions", "GetAllRecyclings"} : QueryGetAll(fn)
    \/ InitLedger

Spec == Init /\ [][Next]_vars

NextService ==
    \/ \E c \in Controllers, ok \in BOOLEAN : initializeBlockchain(c, ok)
    \/ \E d \in WasteDatas, hasData \in BOOLEAN : addWaste(hasData, d)
    \/ \E w \in WasteRefs \cup {<<>>}, s \in {"PROCESSED", "READY", ""}, t \in TransferDatas :
          updateWasteStatus(w, s, t)
    \/ \E d \in ExtractionDatas, hasData \in BOOLEAN : addExtraction(hasData, d)
    \/ \E d \in RecyclingDatas, hasData \in BOOLEAN : addRecycling(hasData, d)
    \/ listWaste
    \/ listExtractions
    \/ listRecyclings
    \/ \E id \in {EXTRACTION_DEFAULT_1, IdGhost} : getExtractionById(id)
    \/ \E id \in {RECYCLING_DEFAULT_1, IdGhost} : getRecyclingById(id)
    \/ \E w \in {WASTE_DEFAULT_1, IdGhost} : getExtractionsByWasteId(w)
    \/ \E w \in {WASTE_DEFAULT_2, IdGhost} : getRecyclingsByWasteId(w)
    \/ \E w \in {WASTE_DEFAULT_1, IdGhost}, fetchOk \in BOOLEAN :
          getCompleteTraceability(w, fetchOk)
    \/ \E id \in {EXTRACTION_DEFAULT_1, <<>>}, s \in {"COMPLETED", ""}, u \in UpdateDatas :
          updateExtractionStatus(id, s, u)
    \/ \E w \in {WASTE_DEFAULT_2, IdGhost} : getWasteHistory(w)
    \/ getBlockchainStatus

SpecService == Init /\ [][NextService]_vars

\* the service with a gateway that can fail and a ledger that can hold records
NextServiceEnv ==
    \/ \E c \in Controllers : initializeBlockchain(c, TRUE)
    \/ \E g \in Gateways : GatewayChange(g)
    \/ \E d \in ValidWasteDatas, hasData \in BOOLEAN : addWaste(hasData, d)
    \/ \E w \in {WASTE_DEFAULT_1, WASTE_DEFAULT_2} : updateWasteStatus(w, "PROCESSED", <<>>)
    \/ \E d \in ValidExtractionDatas : addExtraction(TRUE, d)
    \/ \E d \in ValidRecyclingDatas : addRecycling(TRUE, d)
    \/ listWaste
    \/ listExtractions
    \/ listRecyclings
    \/ \E id \in {EXTRACTION_DEFAULT_1, IdGhost} : getExtractionById(id)
    \/ \E id \in {RECYCLING_DEFAULT_1, IdGhost} : getRecyclingById(id)
    \/ \E w \in {WASTE_DEFAULT_1, IdGhost} : getExtractionsByWasteId(w)
    \/ \E w \in {WASTE_DEFAULT_2, IdGhost} : getRecyclingsByWasteId(w)
    \/ \E w \in {WASTE_DEFAULT_1, IdGhost}, fetchOk \in BOOLEAN :
          getCompleteTraceability(w, fetchOk)
    \/ \E id \in {EXTRACTION_DEFAULT_1, IdGhost} :
          updateExtractionStatus(id, "COMPLETED", <<>>)
    \/ \E w \in {WASTE_DEFAULT_2, IdGhost} : getWasteHistory(w)
    \/ getBlockchainStatus

SpecServiceEnv == Init /\ [][NextServiceEnv]_vars

\* the Fabric clients on their own
NextClient ==
    \/ \E ok \in BOOLEAN : BlockchainClientInitialize(ok)
    \/ hlfSubmitTransaction
    \/ \E fn \in {"submitTransaction", "queryBlockchain"},
          orgName \in {"farmer", "unknown"} : BlockchainClientCall(fn, orgName)
    \/ \E i \in 1..Len(calls), ok \in BOOLEAN : WalletGet(i, ok)
    \/ \E i \in 1..Len(calls), ok \in BOOLEAN : GatewayConnect(i, ok)
    \/ \E i \in 1..Len(calls), ok \in BOOLEAN : ContractCall(i, ok)
    \/ \E i \in 1..Len(calls) : GatewayDisconnect(i)
    \/ \E i \in 1..Len(calls) : Release(i)

SpecClient == Init /\ [][NextClient]_vars

\* the standalone waste chaincode on its own
NextStandalone ==
    \/ StandaloneInitLedger
    \/ \E in \in CreateWasteInputs : StandaloneCreateWaste(in[1], in[2], in[3], in[4])
    \/ \E id \in StandaloneIds \ {<<>>}, st \in {"PROCESSED"} : StandaloneUpdateWasteStatus(id, st)
    \/ \E id \in StandaloneIds \ {<<>>} : StandaloneGetWaste(id)
    \/ StandaloneGetAllWastes

SpecStandalone == Init /\ [][NextStandalone]_vars

\* the read operations of the ledger program and of the service, next to a
\* few writes that give them something to read
NextReads ==
    \/ InitLedger
    \/ \E q \in Quantities : CreateExtraction(IdA, IdWaste1, q)
    \/ \E w \in WasteIds : QueryTraceability(w)
    \/ QueryReadWaste(IdWaste1)
    \/ \E fn \in {"GetAllWastes", "GetAllExtractions", "GetAllRecyclings"} : QueryGetAll(fn)
    \/ QueryWasteExists(IdWaste1)
    \/ QueryGetWasteHistory(IdWaste1)
    \/ \E c \in Controllers : initializeBlockchain(c, TRUE)
    \/ updateWasteStatus(WASTE_DEFAULT_1, "PROCESSED", <<>>)
    \/ listWaste
    \/ listExtractions
    \/ listRecyclings
    \/ getExtractionById(EXTRACTION_DEFAULT_1)
    \/ getRecyclingById(RECYCLING_DEFAULT_1)
    \/ getExtractionsByWasteId(WASTE_DEFAULT_1)
    \/ getRecyclingsByWasteId(WASTE_DEFAULT_2)
    \/ \E fetchOk \in BOOLEAN : getCompleteTraceability(WASTE_DEFAULT_1, fetchOk)
    \/ getWasteHistory(WASTE_DEFAULT_2)

SpecReads == Init /\ [][NextReads]_vars

\* two updateWasteStatus requests in flight against a ledger that holds the waste
NextConcurrent ==
    \/ initializeBlockchain("waste", TRUE)
    \/ \E q \in Quantities : CreateWaste(WASTE_DEFAULT_1, q)
    \/ \E st \in {"PROCESSED", "RECYCLED"} : updateWasteStatusBegin(WASTE_DEFAULT_1, st)
    \/ \E i \in DOMAIN requests : LedgerCommits(i)
    \/ \E i \in DOMAIN requests : updateWasteStatusResume(i)

SpecConcurrent == Init /\ [][NextConcurrent]_vars

----------------------------------------------------------------------------
(* Properties of the ledger program and of the service *)

IsPrefix(s, t) == Len(s) <= Len(t) /\ SubSeq(t, 1, Len(s)) = s

LedgerWastes == {id \in WasteIds : WasteExists(worldState, id)}

StatusOf(ws, id) == ws[WASTE_ \o id].status

\* C1: a ledger-program Create call whose id already exists under its type's
\* key returns an error and leaves every stored record unchanged (the existing
\* record, and for Extraction/Recycling the referenced waste as well).
C1_DuplicateCreateRejected ==
    [][ /\ \A id \in WasteIds, q \in Quantities :
             (lastTx'.fn = "CreateWaste" /\ lastTx'.args = <<id>>
              /\ CreateWaste(id, q) /\ (WASTE_ \o id) \in DOMAIN worldState)
                 => (lastTx'.err # NoErr /\ worldState' = worldState)
        /\ \A id \in ExtractionIds, w \in WasteIds, q \in Quantities :
             (lastTx'.fn = "CreateExtraction" /\ lastTx'.args = <<id, w>>
              /\ CreateExtraction(id, w, q) /\ (EXTRACTION_ \o id) \in DOMAIN worldState)
                 => (lastTx'.err # NoErr /\ worldState' = worldState)
        /\ \A id \in RecyclingIds, w \in WasteIds, q \in Quantities :
             (lastTx'.fn = "CreateRecycling" /\ lastTx'.args = <<id, w>>
              /\ CreateRecycling(id, w, q) /\ (RECYCLING_ \o id) \in DOMAIN worldState)
                 => (lastTx'.err # NoErr /\ worldState' = worldState) ]_vars

C1_Witness ==
    /\ lastTx.fn = "CreateExtraction"
    /\ lastTx.err = "already exists"
    /\ (EXTRACTION_ \o lastTx.args[1]) \in DOMAIN worldState

\* C2: CreateExtraction / CreateRecycling whose wasteId names no stored Waste
\* returns an error and writes nothing: no EXTRACTION_ / RECYCLING_ record
\* appears and no Waste record is created or modified.
C2_MissingWasteRejected ==
    [][ \A w \in WasteIds, q \in Quantities :
          /\ \A id \in ExtractionIds :
               (lastTx'.fn = "CreateExtraction" /\ lastTx'.args = <<id, w>>
                /\ CreateExtraction(id, w, q) /\ ~WasteExists(worldState, w))
                   => (lastTx'.err # NoErr /\ worldState' = worldState)
          /\ \A id \in RecyclingIds :
               (lastTx'.fn = "CreateRecycling" /\ lastTx'.args = <<id, w>>
                /\ CreateRecycling(id, w, q) /\ ~WasteExists(worldState, w))
                   => (lastTx'.err # NoErr /\ worldState' = worldState) ]_vars

C2_Witness ==
    /\ lastTx.fn = "CreateRecycling"
    /\ lastTx.err = "source waste not found"
    /\ ~WasteExists(worldState, lastTx.args[2])
    /\ (RECYCLING_ \o lastTx.args[1]) \notin DOMAIN worldState

\* C3: through the service, creating an Extraction or Recycling that references
\* a waste id that was never created fails, and no such record exists in the
\* local mirror afterwards.
C3_OrphanCreateFails ==
    /\ \A i \in 1..Len(extractions) : extractions[i].wasteId # IdGhost
    /\ \A i \in 1..Len(recyclings) : recyclings[i].wasteId # IdGhost
    /\ (response.op \in {"addExtraction", "addRecycling"} /\ response.success)
           => response.data[1].wasteId # IdGhost

\* C4: every Waste record, in the ledger and in the local mirror (seed records
\* included), has status COLLECTED, PROCESSED or RECYCLED.
C4_WasteStatusInDomain ==
    /\ \A id \in LedgerWastes : StatusOf(worldState, id) \in Statuses
    /\ \A i \in 1..Len(tempWastes) : tempWastes[i].status \in Statuses

\* C5: once a Waste's status is RECYCLED, no later operation changes it.
C5_RecycledIsTerminal ==
    [][ \A id \in LedgerWastes :
          StatusOf(worldState, id) = "RECYCLED"
              => StatusOf(worldState', id) = "RECYCLED" ]_vars

\* C6: a successful CreateExtraction moves the referenced waste
\* COLLECTED -> PROCESSED, a successful CreateRecycling moves it
\* PROCESSED -> RECYCLED, and no create-via-reference makes another transition.
C6_AutomaticTransitionsFollowEdges ==
    [][ \A w \in WasteIds, q \in Quantities :
          /\ \A id \in ExtractionIds :
               (CreateExtraction(id, w, q) /\ lastTx'.err = NoErr)
                   => (StatusOf(worldState, w) = "COLLECTED"
                       /\ StatusOf(worldState', w) = "PROCESSED")
          /\ \A id \in RecyclingIds :
               (CreateRecycling(id, w, q) /\ lastTx'.err = NoErr)
                   => (StatusOf(worldState, w) = "PROCESSED"
                       /\ StatusOf(worldState', w) = "RECYCLED") ]_vars

\* C7: for every entity stored in the ledger the history only grows by
\* appending: the old history is always a prefix of the new one.
C7_HistoryAppendOnly ==
    [][ \A k \in DOMAIN worldState :
          /\ k \in DOMAIN worldState'
          /\ IsPrefix(worldState[k].history, worldState'[k].history) ]_vars

\* C8 (as stated): the first history event of every Waste, Extraction and
\* Recycling stored in the ledger has action CREATED.
C8_FirstEventCreated ==
    \A k \in DOMAIN worldState : worldState[k].history[1].action = "CREATED"

\* C8 (amended): the first history event is the creation event of the entity's
\* type: CREATED for a Waste, EXTRACTED for an Extraction, RECYCLED for a
\* Recycling.
C8_FirstEventIsCreationEvent ==
    \A k \in DOMAIN worldState :
        /\ worldState[k].history # <<>>
        /\ worldState[k].history[1].action =
              (IF IsPrefix(WASTE_, k) THEN "CREATED"
               ELSE IF IsPrefix(EXTRACTION_, k) THEN "EXTRACTED"
               ELSE "RECYCLED")

C8_Witness ==
    /\ \E id \in LedgerWastes : Len(worldState[WASTE_ \o id].history) >= 3
    /\ \E id \in ExtractionIds : (EXTRACTION_ \o id) \in DOMAIN worldState
    /\ \E id \in RecyclingIds : (RECYCLING_ \o id) \in DOMAIN worldState

\* C9: a waste's history length equals 1 plus the number of successful status
\* changes applied to it (UpdateWasteStatus, CreateExtraction, CreateRecycling).
C9_HistoryLengthCountsChanges ==
    \A id \in LedgerWastes :
        Len(worldState[WASTE_ \o id].history) = 1 + applied[id]

\* C10: GetTraceability returns the stored waste and a chain equal to
\* waste.history, then the selected extraction's history if one references the
\* waste, then the selected recycling's history if one does, in that order;
\* with no referencing record both slots are empty and the chain is
\* waste.history.
C10_TraceabilityChain ==
    (lastTx.fn = "GetTraceability" /\ lastTx.err = NoErr) =>
        LET wasteId == lastTx.args[1]
            info == lastTx.ret[1]
            stored == worldState[WASTE_ \o wasteId]
            related(prefix, ids) ==
                {id \in ids : /\ (prefix \o id) \in DOMAIN worldState
                              /\ worldState[prefix \o id].wasteId = wasteId}
            slotOk(slot, prefix, ids) ==
                IF related(prefix, ids) = {}
                THEN slot = <<>>
                ELSE /\ slot # <<>>
                     /\ \E id \in related(prefix, ids) : slot[1] = worldState[prefix \o id]
            historyOf(slot) == IF slot = <<>> THEN <<>> ELSE slot[1].history
        IN  /\ Len(info.waste) = 1
            /\ info.waste[1].id = wasteId
            /\ info.waste[1].status = stored.status
            /\ info.waste[1].history = stored.history
            /\ slotOk(info.extraction, EXTRACTION_, ExtractionIds)
            /\ slotOk(info.recycling, RECYCLING_, RecyclingIds)
            /\ info.chain = stored.history \o historyOf(info.extraction)
                                           \o historyOf(info.recycling)

C10_Witness ==
    /\ lastTx.fn = "GetTraceability"
    /\ lastTx.err = NoErr
    /\ lastTx.ret[1].extraction # <<>>
    /\ lastTx.ret[1].recycling # <<>>
    /\ Len(lastTx.ret[1].chain) = 5

\* C11: when several Extraction records (or several Recycling records)
\* reference the waste, GetTraceability returns the one whose key is the
\* smallest in byte order, whatever the order they were created in, and only
\* that record's history is merged into the chain.
C11_SelectsSmallestKey ==
    (lastTx.fn = "GetTraceability" /\ lastTx.err = NoErr) =>
        LET wasteId == lastTx.args[1]
            info == lastTx.ret[1]
            related(prefix, ids) ==
                {id \in ids : /\ (prefix \o id) \in DOMAIN worldState
                              /\ worldState[prefix \o id].wasteId = wasteId}
            smallest(prefix, ids) ==
                {id \in related(prefix, ids) :
                    \A o \in related(prefix, ids) \ {id} :
                        LexLess(prefix \o id, prefix \o o)}
            selected(slot, prefix, ids) ==
                related(prefix, ids) # {} =>
                    /\ Len(slot) = 1
                    /\ slot[1].id \in smallest(prefix, ids)
            merged(prefix, ids) ==
                IF related(prefix, ids) = {} THEN <<>>
                ELSE worldState[prefix \o (CHOOSE id \in smallest(prefix, ids) : TRUE)].history
        IN  /\ selected(info.extraction, EXTRACTION_, ExtractionIds)
            /\ selected(info.recycling, RECYCLING_, RecyclingIds)
            /\ info.chain = worldState[WASTE_ \o wasteId].history
                                \o merged(EXTRACTION_, ExtractionIds)
                                \o merged(RECYCLING_, RecyclingIds)

\* two extractions of one waste, the one with the larger key created first
C11_Witness ==
    /\ lastTx.fn = "GetTraceability"
    /\ lastTx.err = NoErr
    /\ (EXTRACTION_ \o IdA) \in DOMAIN worldState
    /\ (EXTRACTION_ \o IdB) \in DOMAIN worldState
    /\ worldState[EXTRACTION_ \o IdA].wasteId = lastTx.args[1]
    /\ worldState[EXTRACTION_ \o IdB].wasteId = lastTx.args[1]
    /\ worldState[EXTRACTION_ \o IdB].createdAt < worldState[EXTRACTION_ \o IdA].createdAt
    /\ lastTx.ret[1].extraction[1].id = IdA

\* C12: GetTraceability for a wasteId with no Waste record fails with the
\* not-found error and returns no chain.
C12_TraceabilityNotFound ==
    (lastTx.fn = "GetTraceability" /\ ~WasteExists(worldState, lastTx.args[1])) =>
        /\ lastTx.err = "does not exist"
        /\ lastTx.ret = <<>>

\* the ledger holds records, the queried waste is not among them
C12_Witness ==
    /\ lastTx.fn = "GetTraceability"
    /\ ~WasteExists(worldState, lastTx.args[1])
    /\ lastTx.err = "does not exist"
    /\ \E id \in ExtractionIds : (EXTRACTION_ \o id) \in DOMAIN worldState

\* C14: a record written under its namespaced key is read back with every
\* field equal to what was written: ReadWaste for a Waste, the range reads
\* for an Extraction and a Recycling; an empty farm, left out of the stored
\* JSON, reads back empty.
C14_RoundTrip ==
    [][/\ \A id \in WasteIds, q \in Quantities :
            (lastTx'.fn = "CreateWaste" /\ lastTx'.args = <<id>>
             /\ CreateWaste(id, q) /\ lastTx'.err = NoErr) =>
                ReadWaste(worldState', id) =
                    [err |-> NoErr,
                     waste |-> <<[id |-> id, type |-> "Branches", quantity |-> q,
                                  harvestDate |-> "2025-06-01", status |-> "COLLECTED",
                                  owner |-> "farmer1", farm |-> "",
                                  location |-> "Andalusia",
                                  createdAt |-> clock, updatedAt |-> clock,
                                  history |-> <<History(clock, "CREATED", "farmer1",
                                                  <<"Waste collected", "Branches", q>>)>>]>>]
       /\ \A id \in WasteIds, s \in NewStatuses :
            (lastTx'.fn = "UpdateWasteStatus" /\ lastTx'.args = <<id, s>>
             /\ UpdateWasteStatus(id, s) /\ lastTx'.err = NoErr) =>
                LET old == ReadWaste(worldState, id).waste[1]
                IN  ReadWaste(worldState', id).waste[1] =
                        [old EXCEPT !.status = s, !.updatedAt = clock,
                                    !.history = Append(@,
                                        History(clock, "STATUS_CHANGED", "actor1",
                                          <<"Status changed", old.status, s, <<"note">>>>))]
       /\ \A id \in ExtractionIds, w \in WasteIds, q \in Quantities :
            (lastTx'.fn = "CreateExtraction" /\ lastTx'.args = <<id, w>>
             /\ CreateExtraction(id, w, q) /\ lastTx'.err = NoErr) =>
                LET all == GetAllExtractions(worldState')
                    hits == {i \in DOMAIN all : all[i].id = id}
                IN  /\ Cardinality(hits) = 1
                    /\ \A i \in hits :
                        all[i] = [id |-> id, wasteId |-> w, productType |-> "Oil",
                                  quantity |-> q, quality |-> "Extra",
                                  extractionDate |-> clock, processor |-> "processor1",
                                  status |-> "PROCESSED", createdAt |-> clock,
                                  history |-> <<History(clock, "EXTRACTED", "processor1",
                                                  <<"Extracted", "Oil", q, w>>)>>]
       /\ \A id \in RecyclingIds, w \in WasteIds, q \in Quantities :
            (lastTx'.fn = "CreateRecycling" /\ lastTx'.args = <<id, w>>
             /\ CreateRecycling(id, w, q) /\ lastTx'.err = NoErr) =>
                LET all == GetAllRecyclings(worldState')
                    hits == {i \in DOMAIN all : all[i].id = id}
                IN  /\ Cardinality(hits) = 1
                    /\ \A i \in hits :
                        all[i] = [id |-> id, wasteId |-> w, recycledProduct |-> "Compost",
                                  quantity |-> q, method |-> "Composting",
                                  recyclingDate |-> clock, recycler |-> "recycler1",
                                  status |-> "COMPLETED", createdAt |-> clock,
                                  history |-> <<History(clock, "RECYCLED", "recycler1",
                                                  <<"Recycled", w, "Compost", q, "Composting">>)>>]
      ]_vars

\* a waste stored without its farm key has been read back by ReadWaste
C14_Witness ==
    /\ lastTx.fn = "ReadWaste"
    /\ lastTx.err = NoErr
    /\ lastTx.args[1] = IdA
    /\ "farm" \notin DOMAIN worldState[WASTE_ \o IdA]
    /\ lastTx.ret[1].farm = ""
    /\ lastTx.ret[1].harvestDate = "2025-06-01"

\* C13: at the service, a traceability request for a waste id that neither
\* the ledger nor the waste mirror knows is answered not-found (404, no
\* success), never with a successful chain.
C13_UnknownWasteNotFound ==
    (/\ response.op = "getCompleteTraceability"
     /\ response.status # 400
     /\ response.source # "blockchain") =>
        (FindById(tempWastes, "wasteId", response.data[1].wasteId) = <<>> =>
            /\ response.status = 404
            /\ ~response.success)

\* C15: a create request with valid input appends the new record to the
\* mirror and answers 201 success in exactly one of three cases: initialized
\* and the ledger call succeeded; initialized and the ledger call failed,
\* labelled "fallback"; not initialized, with no ledger call at all and the
\* label "temporary".
C15_CreateAlwaysSucceeds ==
    [][LET Outcome(c, fn, mirror, mirrorAfter) ==
               LET initialized == blockchainInitialized[c]
                   errored == fn \in gateway.failing
               IN  /\ response'.status = 201
                   /\ response'.success
                   /\ mirrorAfter = Append(mirror, response'.data[1])
                   /\ (initialized /\ ~errored) =>
                          /\ response'.source = "blockchain"
                          /\ clientLog' # <<>>
                          /\ clientLog'[1] = fn
                   /\ (initialized /\ errored) =>
                          /\ response'.source = "fallback"
                          /\ clientLog' = <<fn>>
                   /\ ~initialized =>
                          /\ response'.source = "temporary"
                          /\ clientLog' = <<>>
       IN  /\ \A d \in WasteDatas \cup ValidWasteDatas :
                (/\ addWaste(TRUE, d)
                 /\ d.type # "" /\ d.quantity # 0 /\ d.harvestDate # "" /\ d.status # "") =>
                    Outcome("waste", "CreateWaste", tempWastes, tempWastes')
           /\ \A d \in ExtractionDatas \cup ValidExtractionDatas :
                (/\ addExtraction(TRUE, d)
                 /\ d.wasteId # <<>> /\ d.productType # "" /\ d.quantity # 0 /\ d.quality # "") =>
                    Outcome("extraction", "CreateExtraction", extractions, extractions')
           /\ \A d \in RecyclingDatas \cup ValidRecyclingDatas :
                (/\ addRecycling(TRUE, d)
                 /\ d.wasteId # <<>> /\ d.recycledProduct # "" /\ d.quantity # 0 /\ d.method # "") =>
                    Outcome("recycling", "CreateRecycling", recyclings, recyclings')
      ]_vars

\* a create answered "fallback" after its only ledger call, record in the mirror
C15_Witness ==
    /\ response.op = "addRecycling"
    /\ response.status = 201
    /\ response.source = "fallback"
    /\ clientLog = <<"CreateRecycling">>
    /\ recyclings[Len(recyclings)] = response.data[1]

\* C16: a list request returns the ledger's records exactly when the ledger
\* is initialized and its query returns a non-empty result; otherwise it
\* returns the whole mirror, labelled "fallback" when the query failed and
\* "temporary" when the result was empty or the ledger is not initialized;
\* count is the number of records returned.
C16_ListSources ==
    [][LET Outcome(c, fn, mirror) ==
               LET initialized == blockchainInitialized[c]
                   errored == fn \in gateway.failing
                   fromLedger == initialized /\ ~errored /\ gateway.rows > 0
               IN  /\ response'.status = 200
                   /\ response'.success
                   /\ response'.count = Len(response'.data)
                   /\ (response'.source = "blockchain") <=> fromLedger
                   /\ fromLedger => response'.data = <<LedgerRow>>
                   /\ ~fromLedger =>
                          /\ response'.data = mirror
                          /\ response'.source =
                                IF initialized /\ errored THEN "fallback" ELSE "temporary"
       IN  /\ listWaste => Outcome("waste", "GetAllWastes", tempWastes)
           /\ listExtractions => Outcome("extraction", "GetAllExtractions", extractions)
           /\ listRecyclings => Outcome("recycling", "GetAllRecyclings", recyclings)
      ]_vars

\* a list answered from the mirror after the ledger returned nothing
C16_Witness ==
    /\ response.op = "listExtractions"
    /\ clientLog = <<"GetAllExtractions">>
    /\ response.source = "temporary"
    /\ response.data = extractions
    /\ response.count = Len(extractions)

\* C17: a get-by-id read with the ledger initialized, the ledger call
\* answering not-found without error and the mirror holding the record
\* returns the mirror record labelled "temporary"; "fallback" is used only
\* when the ledger call failed.
C17_NotFoundIsTemporary ==
    (/\ response.op \in {"getExtractionById", "getRecyclingById"}
     /\ response.status = 200
     /\ response.source # "blockchain"
     /\ clientLog # <<>>) =>
        (clientLog[1] \notin gateway.failing => response.source = "temporary")

\* C18: a by-waste read with the ledger initialized and the ledger query
\* returning an empty result without error answers with the mirror records
\* whose wasteId is the requested id.
C18_EmptyLedgerFallsBackToMirror ==
    (/\ response.op \in {"getExtractionsByWasteId", "getRecyclingsByWasteId"}
     /\ response.status = 200
     /\ response.source # "blockchain"
     /\ clientLog # <<>>) =>
        (clientLog[1] \notin gateway.failing =>
            response.data =
                FilterByWasteId(IF response.op = "getExtractionsByWasteId"
                                THEN extractions ELSE recyclings,
                                response.wasteId))

\* C19: an addWaste whose ledger call failed while the ledger was
\* initialized answers success labelled "fallback", the waste stays in the
\* mirror, and every later list answer labelled "temporary" or "fallback"
\* contains it.
C19_DegradedWasteListed ==
    /\ \A id \in degraded : \E i \in DOMAIN tempWastes : tempWastes[i].id = id
    /\ (response.op = "addWaste" /\ response.status = 201) =>
           (response.data[1].id \in degraded =>
               /\ response.success
               /\ response.source = "fallback")
    /\ (response.op = "listWaste" /\ response.source \in {"temporary", "fallback"}) =>
           \A id \in degraded : \E j \in DOMAIN response.data : response.data[j].id = id

\* a waste created while the ledger call failed appears in a later list
C19_Witness ==
    /\ response.op = "listWaste"
    /\ response.source \in {"temporary", "fallback"}
    /\ degraded # {}
    /\ \A id \in degraded : \E j \in DOMAIN response.data : response.data[j].id = id

\* C20: in addExtraction and addRecycling, once the primary ledger create has
\* succeeded, status, success flag, data, provenance and mirror contents are
\* fixed by the request alone, whether the link write succeeds or fails.
C20_LinkFailureIgnored ==
    [][LET Outcome(c, op, fn, prefix, mirror, mirrorAfter) ==
               (blockchainInitialized[c] /\ fn \notin gateway.failing) =>
                   /\ response'.op = op
                   /\ response'.status = 201
                   /\ response'.success
                   /\ response'.source = "blockchain"
                   /\ Len(response'.data) = 1
                   /\ response'.data[1].id = GenId(prefix, dateNow)
                   /\ mirrorAfter = Append(mirror, response'.data[1])
       IN  /\ \A d \in ValidExtractionDatas :
                addExtraction(TRUE, d) =>
                    /\ Outcome("extraction", "addExtraction", "CreateExtraction",
                               EXTRACTION_, extractions, extractions')
                    /\ response'.data[1].wasteId = d.wasteId
                    /\ response'.data[1].productType = d.productType
           /\ \A d \in ValidRecyclingDatas :
                addRecycling(TRUE, d) =>
                    /\ Outcome("recycling", "addRecycling", "CreateRecycling",
                               RECYCLING_, recyclings, recyclings')
                    /\ response'.data[1].wasteId = d.wasteId
                    /\ response'.data[1].recycledProduct = d.recycledProduct
      ]_vars

\* the create succeeded, the link write failed, the answer is "blockchain"
C20_Witness ==
    /\ response.op = "addExtraction"
    /\ response.source = "blockchain"
    /\ clientLog = <<"CreateExtraction", "LinkExtractionToWaste">>
    /\ "LinkExtractionToWaste" \in gateway.failing
    /\ "CreateExtraction" \notin gateway.failing
    /\ extractions[Len(extractions)] = response.data[1]

\* C21: a request whose ledger call failed is never answered as a failure:
\* it is answered with success (degraded write, mirror-served read), and
\* with an internal error (500) only when the mirror has no data either.
C21_LedgerErrorNeverSurfaced ==
    [][(/\ dateNow' # dateNow
        /\ clientLog' # <<>>
        /\ clientLog'[1] \in gateway.failing) =>
            (response'.success \/ response'.status = 500)]_vars

\* C22 as stated: every successful response carries a provenance label out
\* of "ledger", "fallback", "temporary", "constructed".
C22_LabelsWithLedger ==
    response.success =>
        response.source \in {"ledger", "fallback", "temporary", "constructed"}

\* C22: every successful response of a data request carries one top-level
\* provenance label out of "blockchain", "fallback", "temporary",
\* "constructed" (the status request carries none), and the label is
\* "blockchain" exactly when the handler's own ledger call succeeded and,
\* for a read, returned records.
C22_LabelsWithBlockchain ==
    [][dateNow' # dateNow =>
         LET op == response'.op
             writes == {"addWaste", "addExtraction", "addRecycling",
                        "updateWasteStatus", "updateExtractionStatus"}
             served == /\ op # "getBlockchainStatus"
                       /\ clientLog' # <<>>
                       /\ clientLog'[1] \notin gateway.failing
                       /\ op = "getCompleteTraceability" =>
                              clientLog'[1] = "GetCompleteTraceability"
                       /\ op \in writes \/ gateway.rows > 0
         IN  /\ (response'.success /\ op # "getBlockchainStatus") =>
                    response'.source \in
                        {"blockchain", "fallback", "temporary", "constructed"}
             /\ (response'.success /\ op = "getBlockchainStatus") =>
                    response'.source = ""
             /\ served <=> response'.source = "blockchain"]_vars

\* a history constructed from the mirror, labelled "constructed"
C22_Witness ==
    /\ response.op = "getWasteHistory"
    /\ response.success
    /\ response.source = "constructed"
    /\ response.data = <<"CREATED", "TRANSFERRED">>

\* C23: a controller's initialized flag is true only if the initialization
\* of its ledger client succeeded.
C23_FlagOnlyAfterSuccess ==
    \A c \in Controllers : blockchainInitialized[c] => isInitialized[c]

\* C24: no entity is ever deleted: no step removes a key from the ledger or
\* an id from a mirror.
C24_NothingDeleted ==
    [][LET Ids(list) == {list[i].id : i \in DOMAIN list}
       IN  /\ DOMAIN worldState \subseteq DOMAIN worldState'
           /\ Ids(tempWastes) \subseteq Ids(tempWastes')
           /\ Ids(extractions) \subseteq Ids(extractions')
           /\ Ids(recyclings) \subseteq Ids(recyclings')]_vars

\* C25: every stored Waste, Extraction and Recycling, in the ledger and in
\* the mirrors, has a quantity greater than zero.
C25_QuantityPositive ==
    /\ \A k \in DOMAIN worldState : worldState[k].quantity > 0
    /\ \A i \in DOMAIN tempWastes : tempWastes[i].quantity > 0
    /\ \A i \in DOMAIN extractions : extractions[i].quantity > 0
    /\ \A i \in DOMAIN recyclings : recyclings[i].quantity > 0

\* C26: the wasteId and the id of an Extraction, in the ledger and in the
\* mirror, never change after its creation.
C26_WasteReferenceFixed ==
    [][/\ \A i \in DOMAIN extractions :
            /\ extractions'[i].wasteId = extractions[i].wasteId
            /\ extractions'[i].id = extractions[i].id
       /\ \A id \in ExtractionIds :
            (EXTRACTION_ \o id) \in DOMAIN worldState =>
                /\ worldState'[EXTRACTION_ \o id].wasteId = worldState[EXTRACTION_ \o id].wasteId
                /\ worldState'[EXTRACTION_ \o id].id = id]_vars

\* C27: a create or status-update request that lacks a required field is
\* answered with a validation error (400), makes no ledger call and leaves
\* the ledger and every mirror unchanged.
C27_InvalidRequestRejected ==
    [][LET Rejected == /\ response'.status = 400
                       /\ ~response'.success
                       /\ clientLog' = <<>>
                       /\ worldState' = worldState
                       /\ tempWastes' = tempWastes
                       /\ extractions' = extractions
                       /\ recyclings' = recyclings
       \* the step is a rejection, or no handler run on an invalid request takes it
       IN  \/ Rejected
           \/ /\ response'.op = "addWaste" =>
                   \A d \in WasteDatas, hasData \in BOOLEAN :
                       ~ /\ (~hasData \/ d.type = "" \/ d.quantity = 0
                                      \/ d.harvestDate = "" \/ d.status = "")
                         /\ addWaste(hasData, d)
              /\ response'.op = "addExtraction" =>
                   \A d \in ExtractionDatas, hasData \in BOOLEAN :
                       ~ /\ (~hasData \/ d.wasteId = <<>> \/ d.productType = ""
                                      \/ d.quantity = 0 \/ d.quality = "")
                         /\ addExtraction(hasData, d)
              /\ response'.op = "addRecycling" =>
                   \A d \in RecyclingDatas, hasData \in BOOLEAN :
                       ~ /\ (~hasData \/ d.wasteId = <<>> \/ d.recycledProduct = ""
                                      \/ d.quantity = 0 \/ d.method = "")
                         /\ addRecycling(hasData, d)
              /\ response'.op = "updateWasteStatus" =>
                   \A w \in WasteRefs \cup {<<>>}, st \in {"PROCESSED", "READY", ""},
                      t \in TransferDatas :
                       ~ /\ (w = <<>> \/ st = "")
                         /\ updateWasteStatus(w, st, t)
              /\ response'.op = "updateExtractionStatus" =>
                   \A id \in {EXTRACTION_DEFAULT_1, <<>>}, st \in {"COMPLETED", ""},
                      u \in UpdateDatas :
                       ~ /\ (id = <<>> \/ st = "")
                         /\ updateExtractionStatus(id, st, u)
      ]_vars

\* a status update without newStatus was refused while the ledger was initialized
C27_Witness ==
    /\ response.op = "updateExtractionStatus"
    /\ response.status = 400
    /\ blockchainInitialized["extraction"]
    /\ clientLog = <<>>
    /\ extractions = extractionsSeed

\* C28: every successful status-changing call of the ledger program
\* (UpdateWasteStatus, or the update implied by CreateExtraction /
\* CreateRecycling) appends exactly one event with action STATUS_CHANGED whose
\* details name the status stored before the call and the new status, and the
\* same write stores the new status.
C28_StatusChangeAppendsEvent ==
    [][ \A w \in WasteIds :
          LET old == worldState[WASTE_ \o w]
              new == worldState'[WASTE_ \o w]
              event == new.history[Len(new.history)]
              Changed(newStatus) ==
                  /\ new.status = newStatus
                  /\ Len(new.history) = Len(old.history) + 1
                  /\ SubSeq(new.history, 1, Len(old.history)) = old.history
                  /\ event.action = "STATUS_CHANGED"
                  /\ Len(event.details) >= 3
                  /\ event.details[2] = old.status
                  /\ event.details[3] = newStatus
          IN  /\ \A s \in NewStatuses :
                   (lastTx'.fn = "UpdateWasteStatus" /\ lastTx'.args = <<w, s>>
                    /\ lastTx'.err = NoErr /\ UpdateWasteStatus(w, s))
                       => Changed(s)
              /\ \A id \in ExtractionIds, q \in Quantities :
                   (lastTx'.fn = "CreateExtraction" /\ lastTx'.args = <<id, w>>
                    /\ lastTx'.err = NoErr /\ CreateExtraction(id, w, q))
                       => Changed("PROCESSED")
              /\ \A id \in RecyclingIds, q \in Quantities :
                   (lastTx'.fn = "CreateRecycling" /\ lastTx'.args = <<id, w>>
                    /\ lastTx'.err = NoErr /\ CreateRecycling(id, w, q))
                       => Changed("RECYCLED") ]_vars

C28_Witness ==
    /\ lastTx.fn = "CreateExtraction"
    /\ lastTx.err = NoErr
    /\ LET h == worldState[WASTE_ \o lastTx.args[2]].history
       IN  /\ Len(h) >= 3
           /\ h[Len(h)].action = "STATUS_CHANGED"
           /\ h[Len(h)].details[3] = "PROCESSED"
           /\ h[Len(h) - 1].action = "STATUS_CHANGED"

\* C29: GetAllWastes / GetAllExtractions / GetAllRecyclings each return
\* exactly the stored entities of their own type, every one of them and none of
\* another type, in ascending key order; entities of different types stored
\* under the same id keep their own record.
C29_RangeScans ==
    LET Scan(out, prefix, ids, fields) ==
            LET stored == {id \in ids : (prefix \o id) \in DOMAIN worldState}
            IN  /\ Len(out) = Cardinality(stored)
                /\ {out[i].id : i \in 1..Len(out)} = stored
                /\ \A i \in 1..Len(out) :
                     /\ DOMAIN out[i] = fields
                     /\ \A f \in DOMAIN worldState[prefix \o out[i].id] :
                          out[i][f] = worldState[prefix \o out[i].id][f]
                /\ \A i, j \in 1..Len(out) :
                     i < j => LexLess(prefix \o out[i].id, prefix \o out[j].id)
        OwnType(prefix, ids, fields) ==
            \A id \in ids :
                (prefix \o id) \in DOMAIN worldState =>
                    /\ DOMAIN worldState[prefix \o id] \subseteq fields
                    /\ worldState[prefix \o id].id = id
    IN  /\ Scan(GetAllWastes(worldState), WASTE_, WasteIds, WasteFields)
        /\ Scan(GetAllExtractions(worldState), EXTRACTION_, ExtractionIds, ExtractionFields)
        /\ Scan(GetAllRecyclings(worldState), RECYCLING_, RecyclingIds, RecyclingFields)
        /\ OwnType(WASTE_, WasteIds, WasteFields)
        /\ OwnType(EXTRACTION_, ExtractionIds, ExtractionFields)
        /\ OwnType(RECYCLING_, RecyclingIds, RecyclingFields)
        /\ lastTx.fn = "GetAllWastes" => lastTx.ret = GetAllWastes(worldState)
        /\ lastTx.fn = "GetAllExtractions" => lastTx.ret = GetAllExtractions(worldState)
        /\ lastTx.fn = "GetAllRecyclings" => lastTx.ret = GetAllRecyclings(worldState)

C29_Witness ==
    /\ lastTx.fn = "GetAllExtractions"
    /\ Len(lastTx.ret) = 2
    /\ lastTx.ret[1].createdAt > lastTx.ret[2].createdAt
    /\ (WASTE_ \o lastTx.ret[1].id) \in DOMAIN worldState

\* C30: every ledger operation that created a Gateway has disconnected it by
\* the time it returns or throws, whether it succeeded or failed after the
\* Gateway was created, and no Gateway is used by an operation other than the
\* one that created it.
C30_SessionsClosed ==
    /\ \A i \in 1..Len(calls) :
         (calls[i].pc = "done" /\ calls[i].gateway # 0)
             => sessions[calls[i].gateway].state = "closed"
    /\ \A i, j \in 1..Len(calls) :
         (i # j /\ calls[i].gateway # 0) => calls[i].gateway # calls[j].gateway
    /\ \A g \in 1..Len(sessions) :
         /\ sessions[g].users \subseteq {sessions[g].owner}
         /\ calls[sessions[g].owner].gateway = g

C30_Witness ==
    \E i, j \in 1..Len(calls) :
        /\ calls[i].fn = "hlfClient.submitTransaction"
        /\ calls[i].outcome = "threw"
        /\ calls[i].gateway # 0
        /\ sessions[calls[i].gateway].users = {i}
        /\ calls[j].fn = "queryBlockchain"
        /\ calls[j].outcome = "returned"
        /\ sessions[calls[j].gateway].state = "closed"

\* C31: a create request makes at most one primary ledger call and at most one
\* link call, never a repeated call; the link call is made only after the
\* primary call succeeded, and no call at all is made while the ledger is not
\* initialized.
C31_OneAttemptThenLink ==
    [][LET Create(op, c, primary, links) ==
               (response'.op = op /\ dateNow' = dateNow + 1) =>
                   /\ clientLog' \in {<<>>, <<primary>>} \cup {<<primary, l>> : l \in links}
                   /\ ~blockchainInitialized[c] => clientLog' = <<>>
                   /\ Len(clientLog') = 2 => primary \notin gateway.failing
                   /\ primary \in gateway.failing => Len(clientLog') <= 1
       IN  /\ Create("addWaste", "waste", "CreateWaste", {})
           /\ Create("addExtraction", "extraction", "CreateExtraction",
                     {"LinkExtractionToWaste"})
           /\ Create("addRecycling", "recycling", "CreateRecycling",
                     {"LinkRecyclingToWaste"})
      ]_vars

\* a create whose primary call failed made that one call and no link call
C31_Witness ==
    /\ response.op = "addExtraction"
    /\ response.source = "fallback"
    /\ clientLog = <<"CreateExtraction">>
    /\ "CreateExtraction" \in gateway.failing

\* C32: the history getWasteHistory returns for a waste (the ledger's, or the
\* one constructed from the mirror record) is never shorter after a status
\* update than it was before it.
C32_ServedHistoryNeverShrinks ==
    [][(response'.op = "updateWasteStatus" /\ dateNow' = dateNow + 1) =>
          \A w \in {WASTE_DEFAULT_1, WASTE_DEFAULT_2} :
              LET q == ClientQuery("farmer", "GetWasteHistory", <<w>>)
                  before == HistoryResponse(blockchainInitialized["waste"], q, tempWastes, w)
                  after == HistoryResponse(blockchainInitialized["waste"], q, tempWastes', w)
              IN  before.status = 200 =>
                      /\ after.status = 200
                      /\ Len(after.data) >= Len(before.data)
      ]_vars

\* C33: a status update for a waste id that neither the ledger nor the mirror
\* holds is reported as not found and changes nothing: the ledger program's
\* UpdateWasteStatus returns an error and writes nothing, and the service's
\* updateWasteStatus answers 404 without success and leaves the mirror as it is.
C33_UnknownWasteUpdateNotFound ==
    [][ /\ \A id \in WasteIds, s \in NewStatuses :
             (lastTx'.fn = "UpdateWasteStatus" /\ lastTx'.args = <<id, s>>
              /\ ~WasteExists(worldState, id) /\ UpdateWasteStatus(id, s))
                 => (lastTx'.err # NoErr /\ worldState' = worldState)
        /\ (response'.op = "updateWasteStatus" /\ dateNow' = dateNow + 1) =>
             \A w \in WasteRefs, st \in {"PROCESSED", "READY"}, t \in TransferDatas :
                 (FindIndexFrom(tempWastes, w, 1) = -1 /\ updateWasteStatus(w, st, t))
                     => /\ response'.status = 404
                        /\ ~response'.success
                        /\ tempWastes' = tempWastes
      ]_vars

\* C34: in the standalone waste chaincode, CreateWaste with an empty id, a
\* quantity that is not a positive integer, a harvest date that is not a date
\* in YYYY-MM-DD form, or an id that is already stored returns an error and
\* writes nothing; otherwise it stores exactly one record, under that id, with
\* the fields it was given.
C34_StandaloneCreateWaste ==
    [][LET PositiveIntegers == {Quantity_50, Quantity_Plus7}
           ValueOf(q) == IF q = Quantity_50 THEN 50 ELSE 7
           Dates == {Date_2023_10_01, Date_2024_02_29}
       IN  \A in \in CreateWasteInputs :
             LET id == in[1]
                 t == in[2]
                 q == in[3]
                 d == in[4]
             IN (wasteTx'.fn = "CreateWaste" /\ wasteTx'.args = in
                 /\ StandaloneCreateWaste(id, t, q, d))
                   => IF id = <<>> \/ q \notin PositiveIntegers \/ d \notin Dates
                         \/ id \in DOMAIN wasteState
                      THEN wasteTx'.err # NoErr /\ wasteState' = wasteState
                      ELSE /\ wasteTx'.err = NoErr
                           /\ DOMAIN wasteState' = DOMAIN wasteState \cup {id}
                           /\ \A k \in DOMAIN wasteState : wasteState'[k] = wasteState[k]
                           /\ wasteState'[id].id = id
                           /\ wasteState'[id].type = t
                           /\ wasteState'[id].quantity = ValueOf(q)
                           /\ wasteState'[id].harvestDate = d
                           /\ wasteState'[id].status = "READY"
                           /\ wasteState'[id].owner = "farmer1"
      ]_vars

\* a signed quantity and a leap day were accepted next to another record
C34_Witness ==
    /\ wasteTx.fn = "CreateWaste"
    /\ wasteTx.err = NoErr
    /\ wasteTx.args[3] = Quantity_Plus7
    /\ wasteTx.args[4] = Date_2024_02_29
    /\ wasteState[wasteTx.args[1]].quantity = 7
    /\ Cardinality(DOMAIN wasteState) = 2

\* C35: the read operations are pure. GetTraceability, ReadWaste, GetAllWastes,
\* GetAllExtractions, GetAllRecyclings, WasteExists and GetWasteHistory leave
\* every stored record unchanged, and the service's list, get, history and
\* traceability requests leave the ledger and the three mirrors unchanged.
C35_ReadsArePure ==
    [][ /\ (lastTx' # lastTx /\
            lastTx'.fn \in {"GetTraceability", "ReadWaste", "GetAllWastes",
                            "GetAllExtractions", "GetAllRecyclings", "WasteExists",
                            "GetWasteHistory"})
               => worldState' = worldState
        /\ (dateNow' = dateNow + 1 /\
            response'.op \in {"listWaste", "listExtractions", "listRecyclings",
                              "getExtractionById", "getRecyclingById",
                              "getExtractionsByWasteId", "getRecyclingsByWasteId",
                              "getWasteHistory", "getCompleteTraceability"})
               => /\ worldState' = worldState
                  /\ tempWastes' = tempWastes
                  /\ extractions' = extractions
                  /\ recyclings' = recyclings
      ]_vars

\* a traceability read that merged an extraction, after a service read, with
\* the ledger and an updated mirror in place
C35_Witness ==
    /\ lastTx.fn = "GetTraceability"
    /\ lastTx.err = NoErr
    /\ lastTx.ret[1].extraction # <<>>
    /\ Len(worldState[WASTE_ \o IdWaste1].history) = 2
    /\ response.op = "getCompleteTraceability"
    /\ tempWastes # tempWastesSeed

\* C36: every entity whose create request was answered with success is
\* contained in every later list answer for its type, whichever source serves
\* the list. Stated for the wastes whose create was answered while the ledger
\* call failed: they are in the mirror and not on the ledger.
C36_ReadYourWrites ==
    response.op = "listWaste" =>
        \A id \in degraded :
            \E j \in DOMAIN response.data : response.data[j].id = id

MirrorStatus(wasteId) == tempWastes[FindIndexFrom(tempWastes, wasteId, 1)].status

\* C37: when two concurrent updateWasteStatus requests for the same waste both
\* succeed on the ledger, then once both have been answered the mirror's status
\* of that waste equals the ledger's status of it.
C37_MirrorFollowsCommitOrder ==
    \A i, j \in DOMAIN requests :
        (/\ i # j
         /\ requests[i].wasteId = requests[j].wasteId
         /\ \A k \in DOMAIN requests : requests[k].pc = "done" /\ ~requests[k].threw)
            => MirrorStatus(requests[i].wasteId)
                   = StatusOf(worldState, requests[i].wasteId)

\* C38: in a sequential run with the ledger initialized and no ledger call
\* failing, after each request every waste held by both the ledger and the
\* mirror has the same status in both; in particular, once an extraction or a
\* recycling referencing a mirrored waste was created with source "blockchain",
\* the mirror's status of that waste is the one the ledger's automatic
\* transition sets (PROCESSED, RECYCLED).
C38_MirrorReflectsTransition ==
    [][ \A op \in {"addExtraction", "addRecycling"} :
          (/\ response'.op = op
           /\ dateNow' = dateNow + 1
           /\ response'.source = "blockchain"
           /\ FindIndexFrom(tempWastes', response'.data[1].wasteId, 1) # -1)
              => tempWastes'[FindIndexFrom(tempWastes', response'.data[1].wasteId, 1)].status
                     = (IF op = "addExtraction" THEN "PROCESSED" ELSE "RECYCLED")
      ]_vars

\* the transactions SmartContract exposes, with the number of parameters each
\* takes after the transaction context
ChaincodeArity ==
    [InitLedger |-> 0, CreateWaste |-> 7, ReadWaste |-> 1, UpdateWasteStatus |-> 4,
     CreateExtraction |-> 6, CreateRecycling |-> 6, GetAllWastes |-> 0,
     GetAllExtractions |-> 0, GetAllRecyclings |-> 0, GetTraceability |-> 1,
     WasteExists |-> 1, GetWasteHistory |-> 1]

\* the ledger functions the controllers invoke, with the number of arguments
\* they pass after the organisation name and the function name
ServiceArity ==
    [CreateWaste |-> 2, UpdateWasteStatus |-> 3, GetAllWastes |-> 0,
     GetWasteHistory |-> 1, CreateExtraction |-> 2, LinkExtractionToWaste |-> 2,
     GetAllExtractions |-> 0, GetExtraction |-> 1, GetExtractionsByWasteId |-> 1,
     UpdateExtractionStatus |-> 3, CreateRecycling |-> 2, LinkRecyclingToWaste |-> 2,
     GetAllRecyclings |-> 0, GetRecycling |-> 1, GetRecyclingsByWasteId |-> 1,
     GetCompleteTraceability |-> 1]

\* C39: every ledger function a request invokes is a transaction the ledger
\* program defines, and the request passes as many arguments as that
\* transaction takes.
C39_CallsMatchChaincode ==
    \A k \in DOMAIN clientLog :
        clientLog[k] \in DOMAIN ServiceArity
            => /\ clientLog[k] \in DOMAIN ChaincodeArity
               /\ ChaincodeArity[clientLog[k]] = ServiceArity[clientLog[k]]

====
